---- MODULE Spec2Model ----
(***************************************************************************)
(* Verification model of the flywall eBPF data path:                       *)
(*   xdp_blocklist.c  (ingress filter, rate limiter, flow store)           *)
(*   tc_offload.c     (verdict engine: tc_fast_path, tc_egress_fast_path)  *)
(*   dns_socket.c, socket_tls.c, dhcp_socket.c (dissectors and emitters)   *)
(*   include/common.h (parse_dns_name, parse_tls_sni)                      *)
(*                                                                         *)
(* Conventions.  Byte buffers are sequences; the byte at C offset i of a   *)
(* buffer d is d[i+1] (see B).  A BPF hash map is a function whose DOMAIN  *)
(* is the set of present keys.  A ring buffer is a sequence bounded by     *)
(* RingCap; bpf_ringbuf_reserve fails exactly when the sequence is full.   *)
(* bpf_ktime_get_ns() reads the variable now (nanoseconds).                *)
(***************************************************************************)
EXTENDS Integers, Sequences, FiniteSets, TLC

\* ------------------------------------------------------------------------
\* Bounds of the model
\* ------------------------------------------------------------------------
MaxPackets == 2
RingCap == 1
MaxNow == 3
MaxRateNow == 2100000000
MaxTrustPackets == 103
MaxRacePackets == 3
MaxTcPackets == 2

\* ------------------------------------------------------------------------
\* Program constants
\* ------------------------------------------------------------------------
XDP_DROP == 1
XDP_PASS == 2
TC_ACT_OK == 0
TC_ACT_SHOT == 0 - 2
ETH_P_IP == 2048
ETH_P_ARP == 2054
IPPROTO_ICMP == 1
IPPROTO_TCP == 6
IPPROTO_UDP == 17
DNS_PORT == 53
TRUSTED_FLOW_FLAG == 1
RATE_LIMIT_WINDOW_NS == 1000000000
FLOW_TIMEOUT_SEC == 300
NS_PER_SEC == 1000000000
TRUST_PACKET_THRESHOLD == 100
ETH_HLEN == 14
IP_HLEN == 20
UDP_HLEN == 8
TCP_HLEN == 20
DNS_HLEN == 12
MAX_DOMAIN_LEN == 253
MAX_SNI_LEN == 64
TLS_RECORD_HANDSHAKE == 22
TLS_HANDSHAKE_CLIENT_HELLO == 1
DHCP_CLIENT_PORT == 68
DHCP_SERVER_PORT == 67
DHCP_HLEN == 240
DHCP_MAGIC_COOKIE == <<99, 130, 83, 99>>
DHCP_OPTION_MESSAGE_TYPE == 53
DHCP_OPTION_HOST_NAME == 12
DHCP_OPTION_VENDOR_CLASS == 60
DHCP_OPTION_SUBNET_MASK == 1
DHCP_OPTION_ROUTER == 3
DHCP_OPTION_DNS_SERVER == 6
DHCP_OPTION_SERVER_ID == 54
DHCP_OPTION_LEASE_TIME == 51
DHCP_OPTION_RENEWAL_TIME == 58
DHCP_OPTION_REBINDING_TIME == 59
DHCP_OPTION_REQUESTED_IP == 50
BLOOM_BITS == 1048576

VERDICT_UNKNOWN == 0
VERDICT_TRUSTED == 1
VERDICT_DROP == 2
NFQUEUE_BYPASS_MARK == 2097152
QOS_MARK_BIT == 1048576
QOS_PROFILE_DEFAULT == 0
QOS_PROFILE_VIDEO == 3
QOS_PROFILE_VOICE == 4
QOS_MAX_ENTRIES == 16

VARIABLES
  now,            \* bpf_ktime_get_ns()
  ip_blocklist,   \* xdp_blocklist.c: ip_blocklist  (ip -> u64)
  xdp_flow_map,   \* xdp_blocklist.c: flow_map      (flow_key -> flow_state)
  xdp_stats,      \* xdp_blocklist.c: statistics
  dns_bloom,      \* xdp_blocklist.c: dns_bloom     (index -> byte)
  xdp_events,     \* xdp_blocklist.c: events ring buffer
  tc_flow_map,    \* tc_offload.c: flow_map
  qos_profiles,   \* tc_offload.c: qos_profiles
  tc_stats,       \* tc_offload.c: tc_stats_map
  dns_queries,    \* dns_socket.c: dns_queries
  dns_responses,  \* dns_socket.c: dns_responses
  dns_stats,      \* dns_socket.c: dns_stats
  dns_events,     \* dns_socket.c: dns_events ring buffer
  tls_handshakes, \* socket_tls.c: tls_handshakes
  tls_stats,      \* socket_tls.c: tls_stats
  tls_events,     \* socket_tls.c: tls_events ring buffer
  dhcp_store,     \* dhcp_socket.c: dhcp_discovers/offers/requests/acks
  dhcp_stats,     \* dhcp_socket.c: dhcp_stats
  dhcp_events,    \* dhcp_socket.c: dhcp_events ring buffer
  last,           \* observation: the last completed invocation and its result
  hist,           \* observation: counters of what the run has seen so far
  cpu,            \* per-CPU position of an in-flight xdp_blocklist_prog
  nm              \* input and result of a stand-alone parse_dns_name call

xdpVars == <<ip_blocklist, xdp_flow_map, xdp_stats, dns_bloom, xdp_events>>
tcVars == <<tc_flow_map, qos_profiles, tc_stats>>
dnsVars == <<dns_queries, dns_responses, dns_stats, dns_events>>
tlsVars == <<tls_handshakes, tls_stats, tls_events>>
dhcpVars == <<dhcp_store, dhcp_stats, dhcp_events>>
vars == <<now, xdpVars, tcVars, dnsVars, tlsVars, dhcpVars, last, hist, cpu, nm>>

\* ------------------------------------------------------------------------
\* Generic helpers
\* ------------------------------------------------------------------------
B(d, i) == d[i + 1]

Min(a, b) == IF a < b THEN a ELSE b

Max(a, b) == IF a > b THEN a ELSE b

MapDelete(m, k) == [x \in (DOMAIN m) \ {k} |-> m[x]]

MapPut(m, k, v) == [x \in (DOMAIN m) \cup {k} |-> IF x = k THEN v ELSE m[x]]

\* a 16-bit field of a packet as the program loads it without ntohs:
\* packets carry port numbers, the raw load is the byte-swapped number
Bswap16(x) == (x % 256) * 256 + (x \div 256)

NoEvent == [present |-> FALSE]

\* bpf_ringbuf_reserve succeeds exactly when the channel has room
HasRoom(ring) == Len(ring) < RingCap

\* the channel after an emitter ran: the event is appended when it was reserved
RingAfter(ring, ev) == IF ev.present THEN Append(ring, ev) ELSE ring

\* ------------------------------------------------------------------------
\* xdp_blocklist.c
\* ------------------------------------------------------------------------
is_ip_blocked(bl, ip) == ip \in DOMAIN bl

\* char is signed: a byte >= 0x80 is added to the u32 hash sign-extended.
\* The u32 hash is kept as two 16-bit halves.
HashStep(h, c) ==
  LET addlo == IF c < 128 THEN c ELSE 65280 + c
      addhi == IF c < 128 THEN 0 ELSE 65535
      t == h.lo * 31 + addlo
  IN [lo |-> t % 65536, hi |-> (h.hi * 31 + addhi + (t \div 65536)) % 65536]

\* the loop at lines 99-101 from iteration i with the hash h so far. The
\* conjunct on h.lo is true of every hash; it makes TLC compute h at each
\* iteration instead of piling up the unevaluated steps.
RECURSIVE DomainHash(_, _, _)
DomainHash(domain, i, h) ==
  IF i < Len(domain) /\ i < 64 /\ h.lo >= 0
    THEN DomainHash(domain, i + 1, HashStep(h, B(domain, i)))
    ELSE h

BloomIndex(domain) ==
  LET h == DomainHash(domain, 0, [lo |-> 0, hi |-> 0])
      m == (h.hi % 16) * 65536 + h.lo
  IN [index |-> (m % BLOOM_BITS) \div 8, bit |-> h.lo % 8]

is_domain_blocked(bloom, domain) ==
  LET bi == BloomIndex(domain)
      filter == IF bi.index \in DOMAIN bloom THEN bloom[bi.index] ELSE 0
  IN (filter \div (2 ^ bi.bit)) % 2 = 1

\* a variant that moves a dropped packet from the passed to the dropped count
update_statistics_MoveToDropped(st, packets, bytes, dropped) ==
  [st EXCEPT !.packets_processed = @ + packets,
             !.bytes_processed = @ + bytes,
             !.packets_dropped = @ + dropped,
             !.packets_passed = IF dropped # 0 THEN @ - dropped ELSE @ + packets]

update_statistics(st, packets, bytes, dropped) ==
  [st EXCEPT !.packets_processed = @ + packets,
             !.bytes_processed = @ + bytes,
             !.packets_dropped = IF dropped # 0 THEN @ + dropped ELSE @,
             !.packets_passed = IF dropped # 0 THEN @ ELSE @ + packets]

\* the event written by send_event when the reservation succeeded, none otherwise
send_event(room, type, src_ip, dst_ip, src_port, dst_port, protocol, data, t) ==
  IF ~room THEN NoEvent
  ELSE [present |-> TRUE, emitter |-> "xdp", type |-> type, src_ip |-> src_ip,
        dst_ip |-> dst_ip, src_port |-> src_port, dst_port |-> dst_port,
        protocol |-> protocol, data_len |-> Len(data), timestamp |-> t,
        data |-> data]

ExpiresAt(t) == [sec |-> (t \div NS_PER_SEC) + FLOW_TIMEOUT_SEC, ns |-> t % NS_PER_SEC]

NewFlowState(t) ==
  [verdict |-> XDP_PASS, qos_profile |-> 0, flags |-> 0, packet_count |-> 0,
   byte_count |-> 0, last_seen |-> 0, created_at |-> t, expires_at |-> ExpiresAt(t)]

\* bpf_map_update_elem with BPF_NOEXIST / BPF_EXIST on a hash map
MapUpdateNoExist(m, k, v) ==
  IF k \in DOMAIN m THEN [rc |-> 0 - 17, m |-> m] ELSE [rc |-> 0, m |-> MapPut(m, k, v)]

MapUpdateExist(m, k, v) ==
  IF k \in DOMAIN m THEN [rc |-> 0, m |-> MapPut(m, k, v)] ELSE [rc |-> 0 - 2, m |-> m]

\* lines 171-176 of get_or_create_flow, after the first lookup missed:
\* found tells whether the caller gets a flow_state pointer
flow_insert(fm, key, t) ==
  LET u == MapUpdateNoExist(fm, key, NewFlowState(t))
  IN IF u.rc = 0 THEN [found |-> key \in DOMAIN u.m, fm |-> u.m]
     ELSE [found |-> FALSE, fm |-> u.m]

\* get_or_create_flow, run without interruption
get_or_create_flow(fm, key, t) ==
  IF key \in DOMAIN fm THEN [found |-> TRUE, fm |-> fm]
  ELSE flow_insert(fm, key, t)

\* rate_limit_check with the window test off by one at the boundary
RateAdmits_Inclusive(bl, ip, t) ==
  ~(ip \in DOMAIN bl /\ (t - bl[ip]) <= RATE_LIMIT_WINDOW_NS)

\* the admission test of rate_limit_check: 1 = allowed, 0 = rate limited
RateAdmits(bl, ip, t) ==
  ~(ip \in DOMAIN bl /\ (t - bl[ip]) < RATE_LIMIT_WINDOW_NS)

\* lines 189-192: BPF_EXIST first, BPF_NOEXIST when that failed
rate_limit_store(bl, ip, t) ==
  LET u == MapUpdateExist(bl, ip, t)
  IN IF u.rc # 0 THEN MapUpdateNoExist(u.m, ip, t).m ELSE u.m

rate_limit_check(bl, ip, t) ==
  IF RateAdmits(bl, ip, t)
    THEN [allowed |-> 1, bl |-> rate_limit_store(bl, ip, t)]
    ELSE [allowed |-> 0, bl |-> bl]

\* the simplified DNS name extraction of xdp_blocklist_prog (lines 276-296);
\* n is the number of payload bytes in front of data_end
RECURSIVE XdpDomain(_, _, _)
XdpDomain(dns, pos, domain) ==
  IF ~(pos < 63 /\ pos < Len(dns)) THEN domain
  ELSE LET len == B(dns, pos)
           upto == Min(Min(pos + len, 63), Len(dns) - 1)
           sep == IF Len(domain) > 0 THEN <<46>> ELSE <<>>
           lab == [j \in 1..Max(upto - pos, 0) |-> B(dns, pos + j)]
       IN IF len = 0 THEN domain
          ELSE IF Len(domain) + len + 1 > 63 THEN domain
          ELSE XdpDomain(dns, pos + len + 1, domain \o sep \o lab)

\* a variant that rebuilds the entry from a fresh flow_state on every packet
FlowCount_FreshState(fs, packet_len, t) ==
  [NewFlowState(fs.created_at) EXCEPT !.packet_count = fs.packet_count + 1,
                                      !.byte_count = fs.byte_count + packet_len,
                                      !.last_seen = t, !.flags = fs.flags,
                                      !.expires_at = fs.expires_at]

\* the flow bookkeeping of xdp_blocklist_prog on a flow_state (lines 313-325)
FlowCount(fs, packet_len, t) ==
  LET c == [fs EXCEPT !.packet_count = @ + 1, !.byte_count = @ + packet_len,
                      !.last_seen = t]
  IN IF c.packet_count > TRUST_PACKET_THRESHOLD /\ (c.flags % 2) = 0
       THEN [c EXCEPT !.flags = @ + TRUSTED_FLOW_FLAG]
       ELSE c

FlowOffloadedNow(fs) ==
  fs.packet_count + 1 > TRUST_PACKET_THRESHOLD /\ (fs.flags % 2) = 0

XdpFlowKey(p) ==
  [src_ip |-> p.saddr, dst_ip |-> p.daddr,
   src_port |-> IF p.protocol \in {IPPROTO_TCP, IPPROTO_UDP} THEN Bswap16(p.sport) ELSE 0,
   dst_port |-> IF p.protocol \in {IPPROTO_TCP, IPPROTO_UDP} THEN Bswap16(p.dport) ELSE 0,
   ip_proto |-> p.protocol]

XdpOut(ret, why, bl, fm, st, ev) ==
  [ret |-> ret, why |-> why, bl |-> bl, fm |-> fm, st |-> st, ev |-> ev]

\* the part of xdp_blocklist_prog from get_or_create_flow to the end
XdpFlowPart(p, bl, fm, st, t) ==
  LET key == XdpFlowKey(p)
      g == get_or_create_flow(fm, key, t)
      fs == FlowCount(g.fm[key], p.tot_len, t)
      fm2 == MapPut(g.fm, key, fs)
      st2 == IF FlowOffloadedNow(g.fm[key])
               THEN [st EXCEPT !.flows_offloaded = @ + 1] ELSE st
  IN IF ~g.found THEN XdpOut(XDP_PASS, "noflow", bl, g.fm, st, NoEvent)
     ELSE IF fs.verdict = XDP_DROP
       THEN XdpOut(XDP_DROP, "verdict", bl, fm2, update_statistics(st2, 1, p.tot_len, 1), NoEvent)
       ELSE XdpOut(XDP_PASS, "flow", bl, fm2, update_statistics(st2, 1, p.tot_len, 0), NoEvent)

\* the part of xdp_blocklist_prog after the rate limiter admitted the packet
XdpL4Part(p, bl, fm, st, bloom, room, t) ==
  IF p.protocol \in {IPPROTO_TCP, IPPROTO_UDP}
    THEN IF p.len < ETH_HLEN + IP_HLEN + UDP_HLEN
           THEN XdpOut(XDP_PASS, "short_l4", bl, fm, st, NoEvent)
         ELSE IF p.protocol = IPPROTO_UDP /\ p.dport = DNS_PORT
           THEN IF Len(p.payload) < DNS_HLEN
                  THEN XdpOut(XDP_PASS, "short_dns", bl, fm, st, NoEvent)
                ELSE IF B(p.payload, 2) >= 128
                  THEN XdpOut(XDP_PASS, "dns_response", bl, fm, st, NoEvent)
                ELSE LET domain == XdpDomain(p.payload, 12, <<>>)
                     IN IF is_domain_blocked(bloom, domain)
                          THEN XdpOut(XDP_DROP, "domain", bl, fm,
                                      update_statistics(st, 1, p.tot_len, 1),
                                      send_event(room, 2, p.saddr, p.daddr, Bswap16(p.sport),
                                                 Bswap16(p.dport), p.protocol, domain, t))
                          ELSE XdpFlowPart(p, bl, fm, st, t)
         ELSE XdpFlowPart(p, bl, fm, st, t)
    ELSE XdpFlowPart(p, bl, fm, st, t)

\* xdp_blocklist_prog on packet p, run without interruption; room tells
\* whether bpf_ringbuf_reserve finds room in the events channel
xdp_blocklist_prog(p, bl, fm, st, bloom, room, t) ==
  IF p.len < ETH_HLEN THEN XdpOut(XDP_PASS, "short_eth", bl, fm, st, NoEvent)
  ELSE IF p.eth_proto # ETH_P_IP THEN XdpOut(XDP_PASS, "not_ip", bl, fm, st, NoEvent)
  ELSE IF p.len < ETH_HLEN + IP_HLEN THEN XdpOut(XDP_PASS, "short_ip", bl, fm, st, NoEvent)
  ELSE IF p.frag THEN XdpOut(XDP_PASS, "fragment", bl, fm, st, NoEvent)
  ELSE IF is_ip_blocked(bl, p.saddr)
    THEN XdpOut(XDP_DROP, "blocked", bl, fm, update_statistics(st, 1, p.tot_len, 1),
                send_event(room, 1, p.saddr, p.daddr, 0, 0, p.protocol, <<>>, t))
  ELSE LET rl == rate_limit_check(bl, p.saddr, t)
       IN IF rl.allowed = 0
            THEN XdpOut(XDP_DROP, "rate", rl.bl, fm, update_statistics(st, 1, p.tot_len, 1), NoEvent)
            ELSE XdpL4Part(p, rl.bl, fm, st, bloom, room, t)

\* ------------------------------------------------------------------------
\* include/common.h: parse_dns_name
\* ------------------------------------------------------------------------
\* a byte stored into the name: printable ASCII is kept, anything else is '?'
NameChar(c) == IF c >= 32 /\ c <= 126 THEN c ELSE 63

\* a variant of the label copy that does not stop at name_max - 1
LabelChars_Unbounded(data, pos, len, have, name_max) ==
  [i \in 1..len |-> NameChar(B(data, pos + i - 1))]

\* the characters of one label, lines 446-453: the copy stops at name_max - 1
LabelChars(data, pos, len, have, name_max) ==
  [i \in 1..Max(Min(len, (name_max - 1) - have), 0) |-> NameChar(B(data, pos + i - 1))]

NameResult(ret, pos, name, jumps_done) ==
  [ret |-> ret, pos |-> pos, name |-> name, jumps_done |-> jumps_done]

\* the loop of parse_dns_name.  pos, name, original_pos, jumped and jumps are
\* the locals of the C function; done counts the jumps performed so far
RECURSIVE ParseNameLoop(_, _, _, _, _, _, _, _, _)
ParseNameLoop(data, data_len, name_max, pos, name, original_pos, jumped, jumps, done) ==
  LET finish(at) == NameResult(Len(name), IF jumped THEN original_pos ELSE at, name, done)
  IN IF ~(pos < data_len /\ Len(name) < name_max - 1) THEN finish(pos)
     ELSE LET len == B(data, pos)
              pos1 == pos + 1
          IN IF len = 0 THEN finish(pos1)
             ELSE IF (len \div 64) = 3
               THEN IF pos1 >= data_len THEN NameResult(0 - 1, pos1, name, done)
                    ELSE IF jumps > 5 THEN NameResult(0 - 1, pos1, name, done)
                    ELSE ParseNameLoop(data, data_len, name_max,
                                       (len % 64) * 256 + B(data, pos1), name,
                                       IF jumped THEN original_pos ELSE pos1 + 1,
                                       TRUE, jumps + 1, done + 1)
             ELSE IF pos1 + len > data_len THEN NameResult(0 - 1, pos1, name, done)
             ELSE LET sep == IF Len(name) > 0 THEN <<46>> ELSE <<>>
                      withsep == name \o sep
                      chars == LabelChars(data, pos1, len, Len(withsep), name_max)
                  IN ParseNameLoop(data, data_len, name_max, pos1 + len,
                                   withsep \o chars, original_pos, jumped, jumps, done)

\* a variant in which jumped starts set, so that no pointer moves original_pos
parse_dns_name_JumpedAtStart(data, data_len, pos, name_max) ==
  ParseNameLoop(data, data_len, name_max, pos, <<>>, pos, TRUE, 0, 0)

parse_dns_name(data, data_len, pos, name_max) ==
  ParseNameLoop(data, data_len, name_max, pos, <<>>, pos, FALSE, 0, 0)

\* dns_socket.c calls extract_domain with the signature of parse_dns_name; the
\* name decoder of the DNS dissector is parse_dns_name
extract_domain(data, data_len, pos, name_max) == parse_dns_name(data, data_len, pos, name_max)

\* ------------------------------------------------------------------------
\* dns_socket.c
\* ------------------------------------------------------------------------
U16(d, i) == B(d, i) * 256 + B(d, i + 1)

DnsKey(src_ip, dst_ip, src_port, dst_port, id) ==
  [src_ip |-> src_ip, dst_ip |-> dst_ip, src_port |-> src_port, dst_port |-> dst_port,
   query_id |-> id]

\* send_dns_event: the event written when the reservation succeeded.  The
\* reserved record is not cleared: a field the emitter does not write holds
\* whatever the ring memory held (g)
send_dns_event(room, p, key, info, is_response, t, g) ==
  IF ~room THEN NoEvent
  ELSE [present |-> TRUE, emitter |-> "dns", timestamp |-> t, key |-> key,
        is_response |-> is_response, domain |-> info.domain,
        packet_size |-> info.packet_size,
        response_time_ns |-> IF is_response = 1 /\ info.query_timestamp > 0
                               THEN info.response_timestamp - info.query_timestamp
                               ELSE g]

DnsOut(why, q, r, st, ev, evdrop, fail) ==
  [ret |-> 0, why |-> why, q |-> q, r |-> r, st |-> st, ev |-> ev,
   event_dropped |-> evdrop, other_failure |-> fail]

\* line 238: the key handed to bpf_map_delete_elem after a response
DnsCleanupKey(key, lookup_key) == key

\* dns_socket_filter on packet p, run without interruption.  room: the event
\* reservation finds room; store_ok: bpf_map_update_elem succeeds
dns_socket_filter(p, q, r, st, room, store_ok, t, g) ==
  LET dns == p.payload
      dns_len == p.udp_len - UDP_HLEN
      id == U16(dns, 0)
      flags == U16(dns, 2)
      questions == U16(dns, 4)
      answers == U16(dns, 6)
      is_response == flags >= 32768
      key == DnsKey(p.saddr, p.daddr, Bswap16(p.sport), Bswap16(p.dport), id)
      lookup_key == DnsKey(p.daddr, p.saddr, Bswap16(p.dport), Bswap16(p.sport), id)
      dom == extract_domain(dns, dns_len, DNS_HLEN, MAX_DOMAIN_LEN)
      has_qt == dom.pos + 4 <= dns_len
      query_info == [packet_size |-> p.len, timestamp |-> t, domain |-> dom.name,
                     query_type |-> IF has_qt THEN U16(dns, dom.pos) ELSE 0,
                     query_class |-> IF has_qt THEN U16(dns, dom.pos + 2) ELSE 0,
                     query_timestamp |-> 0]
      response_info == [packet_size |-> p.len, response_timestamp |-> t,
                        answer_count |-> answers, authority_count |-> U16(dns, 8),
                        additional_count |-> U16(dns, 10), response_code |-> flags % 16,
                        domain |-> dom.name,
                        query_timestamp |-> IF lookup_key \in DOMAIN q
                                              THEN q[lookup_key].timestamp ELSE 0]
      cleaned == MapDelete(q, DnsCleanupKey(key, lookup_key))
  IN IF p.len < ETH_HLEN + IP_HLEN + UDP_HLEN THEN DnsOut("short_frame", q, r, st, NoEvent, FALSE, FALSE)
     ELSE IF p.eth_proto # ETH_P_IP \/ p.protocol # IPPROTO_UDP
       THEN DnsOut("not_udp", q, r, st, NoEvent, FALSE, FALSE)
     ELSE IF p.dport # DNS_PORT /\ p.sport # DNS_PORT
       THEN DnsOut("not_dns", q, r, st, NoEvent, FALSE, FALSE)
     ELSE IF dns_len > Len(dns) \/ dns_len < DNS_HLEN
       THEN DnsOut("short_dns", q, r, st, NoEvent, FALSE, FALSE)
     ELSE IF dom.ret < 0
       THEN DnsOut("bad_name", q, r, [st EXCEPT !.errors = @ + 1], NoEvent, FALSE, TRUE)
     ELSE IF ~is_response /\ questions > 0
       THEN IF store_ok
              THEN DnsOut("query", MapPut(q, key, query_info), r,
                          [st EXCEPT !.queries_processed = @ + 1,
                                     !.errors = IF room THEN @ ELSE @ + 1],
                          send_dns_event(room, p, key, query_info, 0, t, g), ~room, FALSE)
              ELSE DnsOut("query_store_failed", q, r, [st EXCEPT !.errors = @ + 1],
                          NoEvent, FALSE, TRUE)
     ELSE IF is_response /\ answers > 0
       THEN IF store_ok
              THEN DnsOut("response", cleaned, MapPut(r, id, response_info),
                          [st EXCEPT !.responses_processed = @ + 1,
                                     !.errors = IF room THEN @ ELSE @ + 1],
                          send_dns_event(room, p, key, response_info, 1, t, g), ~room, FALSE)
              ELSE DnsOut("response_store_failed", cleaned, r, [st EXCEPT !.errors = @ + 1],
                          NoEvent, FALSE, TRUE)
     ELSE DnsOut("ignored", q, r, st, NoEvent, FALSE, FALSE)

\* ------------------------------------------------------------------------
\* include/common.h: parse_tls_sni, and socket_tls.c
\* ------------------------------------------------------------------------
\* a read of the payload; a read at or behind data_len returns whatever byte
\* lies behind the packet (g)
Rd(data, i, g) == IF i < Len(data) THEN B(data, i) ELSE g

Rd16(data, i, g) == Rd(data, i, g) * 256 + Rd(data, i + 1, g)

ZeroBytes(n) == [i \in 1..n |-> 0]

SniResult(ret, sni) == [ret |-> ret, sni |-> sni]

\* lines 529-540: copy the host name into sni and terminate it
SniCopy(data, data_len, pos, sni, sni_max, g) ==
  LET declared == Rd16(data, pos - 2, g)
      sni_len == IF declared >= sni_max THEN sni_max - 1 ELSE declared
      copied == Max(Min(sni_len, data_len - pos), 0)
  IN SniResult(sni_len,
               [i \in 1..Len(sni) |-> IF i <= copied THEN B(data, pos + i - 1)
                                      ELSE IF i = sni_len + 1 THEN 0
                                      ELSE sni[i]])

\* the extension walk of parse_tls_sni, lines 506-544
RECURSIVE SniExtensions(_, _, _, _, _, _, _)
SniExtensions(data, data_len, pos, extensions_end, sni, sni_max, g) ==
  IF ~(pos + 4 <= extensions_end /\ pos < data_len) THEN SniResult(0, sni)
  ELSE LET ext_type == Rd16(data, pos, g)
           ext_len == Rd16(data, pos + 2, g)
           body == pos + 4
       IN IF body + ext_len > data_len THEN SniResult(0 - 1, sni)
          ELSE IF ext_type = 0
            THEN IF body + 2 > data_len THEN SniResult(0 - 1, sni)
                 ELSE IF body + 5 > data_len THEN SniResult(0 - 1, sni)
                 ELSE SniCopy(data, data_len, body + 5, sni, sni_max, g)
          ELSE SniExtensions(data, data_len, body + ext_len, extensions_end, sni, sni_max, g)

\* parse_tls_sni: sni is the caller's buffer, returned as the function left it
parse_tls_sni(data, data_len, sni, sni_max, g) ==
  IF data_len < 9 THEN SniResult(0 - 1, sni)
  ELSE IF 9 + 1 >= data_len THEN SniResult(0 - 1, sni)
  ELSE LET pos1 == 9 + 1 + B(data, 9)
       IN IF pos1 + 2 >= data_len THEN SniResult(0 - 1, sni)
          ELSE LET pos2 == pos1 + 2 + U16(data, pos1)
               IN IF pos2 + 1 >= data_len THEN SniResult(0 - 1, sni)
                  ELSE LET pos3 == pos2 + 1 + B(data, pos2)
                       IN IF pos3 + 2 >= data_len THEN SniResult(0 - 1, sni)
                          ELSE SniExtensions(data, data_len, pos3 + 2,
                                             pos3 + 2 + U16(data, pos3), sni, sni_max, g)

\* a 32-bit word as the set of its one bits; xor is the symmetric difference
Bits(x) == {b \in 0..30 : (x \div (2 ^ b)) % 2 = 1}

\* bit b of (c << sh), c a char promoted to int with its sign
ShlBit(c, sh, b) ==
  b >= sh /\ (IF b - sh < 8 THEN (c \div (2 ^ (b - sh))) % 2 = 1 ELSE c >= 128)

\* the xor over i of sni[i] << ((i + off) % 24): bit b is set when an odd
\* number of the shifted chars have it set; a zero char sets no bit
Ja3Mix(sni, off) ==
  LET nonzero == {i \in 0..(Len(sni) - 1) : B(sni, i) # 0}
  IN {b \in 0..31 :
        Cardinality({i \in nonzero : ShlBit(B(sni, i), (i + off) % 24, b)}) % 2 = 1}

\* a variant that mixes the creation timestamp into the first word
produce_ja3_hash_WithTimestamp(info) ==
  <<Bits(info.version + info.timestamp), Bits(info.cipher_suite), Ja3Mix(info.sni, 0),
    Ja3Mix(info.sni, 13)>>

\* produce_ja3_hash: the four words of ja3_hash
produce_ja3_hash(info) ==
  <<Bits(info.version), Bits(info.cipher_suite), Ja3Mix(info.sni, 0), Ja3Mix(info.sni, 13)>>

TlsKey(p) ==
  [src_ip |-> p.saddr, dst_ip |-> p.daddr, src_port |-> Bswap16(p.sport),
   dst_port |-> Bswap16(p.dport)]

\* a variant that emits no event for a handshake without a server name
send_tls_event_NeedsSni(room, p, key, info, t) ==
  IF ~room \/ info.sni = ZeroBytes(MAX_SNI_LEN) THEN NoEvent
  ELSE [present |-> TRUE, emitter |-> "tls", timestamp |-> t, key |-> key,
        version |-> info.version, cipher_suite |-> info.cipher_suite,
        packet_size |-> p.len, sni |-> info.sni, ja3_hash |-> info.ja3_hash]

send_tls_event(room, p, key, info, t) ==
  IF ~room THEN NoEvent
  ELSE [present |-> TRUE, emitter |-> "tls", timestamp |-> t, key |-> key,
        version |-> info.version, cipher_suite |-> info.cipher_suite,
        packet_size |-> p.len, sni |-> info.sni, ja3_hash |-> info.ja3_hash]

TlsOut(why, hs, st, ev, evdrop) ==
  [ret |-> 0, why |-> why, hs |-> hs, st |-> st, ev |-> ev, event_dropped |-> evdrop,
   other_failure |-> FALSE]

\* the number of bytes between the payload pointer and data_end
TlsAvail(p) == p.frame_len - (ETH_HLEN + p.ihl * 4 + p.doff * 4)

\* a variant that asks for the record header only
TlsShortHandshake_RecordOnly(p) == TlsAvail(p) < 5

\* line 136: fewer than 5 + 4 bytes in front of data_end
TlsShortHandshake(p) == TlsAvail(p) < 5 + 4

tls_socket_filter(p, hs, st, room, store_ok, t, g) ==
  LET tls_data == p.payload
      info0 == [timestamp |-> t, version |-> U16(tls_data, 1), cipher_suite |-> 0,
                sni |-> parse_tls_sni(tls_data, TlsAvail(p), ZeroBytes(MAX_SNI_LEN),
                                      MAX_SNI_LEN, g).sni]
      info == [timestamp |-> info0.timestamp, version |-> info0.version,
               cipher_suite |-> info0.cipher_suite, sni |-> info0.sni,
               ja3_hash |-> produce_ja3_hash(info0)]
  IN IF p.len < ETH_HLEN + IP_HLEN + TCP_HLEN THEN TlsOut("short_frame", hs, st, NoEvent, FALSE)
     ELSE IF p.eth_proto # ETH_P_IP \/ p.protocol # IPPROTO_TCP
       THEN TlsOut("not_tcp", hs, st, NoEvent, FALSE)
     ELSE IF TlsAvail(p) < 5 THEN TlsOut("short_record", hs, st, NoEvent, FALSE)
     ELSE IF B(tls_data, 0) # TLS_RECORD_HANDSHAKE THEN TlsOut("not_handshake", hs, st, NoEvent, FALSE)
     ELSE IF TlsShortHandshake(p) THEN TlsOut("short_handshake", hs, st, NoEvent, FALSE)
     ELSE IF B(tls_data, 5) # TLS_HANDSHAKE_CLIENT_HELLO
       THEN TlsOut("not_client_hello", hs, st, NoEvent, FALSE)
     ELSE IF store_ok
       THEN TlsOut("client_hello", MapPut(hs, TlsKey(p), info),
                   [st EXCEPT !.handshakes_observed = @ + 1,
                              !.errors = IF room THEN @ ELSE @ + 1],
                   send_tls_event(room, p, TlsKey(p), info, t), ~room)
       ELSE TlsOut("store_failed", hs, st, NoEvent, FALSE)

\* ------------------------------------------------------------------------
\* dhcp_socket.c
\* ------------------------------------------------------------------------
SubBytes(data, from, n) == [i \in 1..n |-> B(data, from + i - 1)]

OptResult(ret, pos, value) == [ret |-> ret, pos |-> pos, value |-> value]

\* parse_dhcp_options: the search starts at pos and leaves pos where it stopped;
\* value is what bpf_probe_read_kernel copied (nothing when ret = -1)
RECURSIVE parse_dhcp_options(_, _, _, _, _)
parse_dhcp_options(data, data_len, pos, option_type, max_len) ==
  IF ~(pos + 2 <= data_len) THEN OptResult(0 - 1, pos, <<>>)
  ELSE LET opt == B(data, pos)
           opt_len == B(data, pos + 1)
           at == pos + 2
           capped == IF opt_len > max_len THEN max_len ELSE opt_len
       IN IF opt = 255 THEN OptResult(0 - 1, at, <<>>)
          ELSE IF opt = option_type
            THEN IF at + capped <= data_len
                   THEN OptResult(capped, at, SubBytes(data, at, capped))
                   ELSE parse_dhcp_options(data, data_len, at + capped, option_type, max_len)
          ELSE parse_dhcp_options(data, data_len, at + opt_len, option_type, max_len)

\* the __u8 that receives the int returned by parse_dhcp_options
AsU8(x) == x % 256

DhcpKey(dhcp) == [xid |-> SubBytes(dhcp, 4, 4), mac_addr |-> SubBytes(dhcp, 28, 6)]

send_dhcp_event(room, p, key, info, event_type, t) ==
  IF ~room THEN NoEvent
  ELSE [present |-> TRUE, emitter |-> "dhcp", timestamp |-> t, src_ip |-> p.saddr,
        dst_ip |-> p.daddr, src_port |-> Bswap16(p.sport), dst_port |-> Bswap16(p.dport),
        event_type |-> event_type, key |-> key, info |-> info]

DhcpOut(why, store, st, ev, evdrop, fail) ==
  [ret |-> 0, why |-> why, store |-> store, st |-> st, ev |-> ev,
   event_dropped |-> evdrop, other_failure |-> fail]

\* lines 263-291: the Discover record, hostname then vendor class
DhcpDiscoverInfo(p, dhcp, dhcp_len, pos, t) ==
  LET h == parse_dhcp_options(dhcp, dhcp_len, pos, DHCP_OPTION_HOST_NAME, 63)
      v == parse_dhcp_options(dhcp, dhcp_len, h.pos, DHCP_OPTION_VENDOR_CLASS, 63)
  IN [packet_size |-> p.len, timestamp |-> t, mac_addr |-> SubBytes(dhcp, 28, 6),
      hostname_len |-> AsU8(h.ret), hostname |-> h.value,
      vendor_class_len |-> AsU8(v.ret), vendor_class |-> v.value]

\* lines 293-326 and 368-408: the Offer record; the Ack record adds the
\* renewal and rebinding times
DhcpOfferInfo(p, dhcp, dhcp_len, pos, t, is_ack) ==
  LET sid == parse_dhcp_options(dhcp, dhcp_len, pos, DHCP_OPTION_SERVER_ID, 4)
      msk == parse_dhcp_options(dhcp, dhcp_len, sid.pos, DHCP_OPTION_SUBNET_MASK, 4)
      rtr == parse_dhcp_options(dhcp, dhcp_len, msk.pos, DHCP_OPTION_ROUTER, 4)
      dns == parse_dhcp_options(dhcp, dhcp_len, rtr.pos, DHCP_OPTION_DNS_SERVER, 16)
      lse == parse_dhcp_options(dhcp, dhcp_len, dns.pos, DHCP_OPTION_LEASE_TIME, 4)
      ren == parse_dhcp_options(dhcp, dhcp_len, lse.pos, DHCP_OPTION_RENEWAL_TIME, 4)
      reb == parse_dhcp_options(dhcp, dhcp_len, ren.pos, DHCP_OPTION_REBINDING_TIME, 4)
      offer == [packet_size |-> p.len, timestamp |-> t, your_ip |-> SubBytes(dhcp, 16, 4),
                server_ip |-> sid.value, subnet_mask |-> msk.value, router |-> rtr.value,
                dns_servers |-> dns.value, lease_time |-> lse.value]
  IN IF is_ack
       THEN [packet_size |-> offer.packet_size, timestamp |-> offer.timestamp,
             your_ip |-> offer.your_ip, server_ip |-> offer.server_ip,
             subnet_mask |-> offer.subnet_mask, router |-> offer.router,
             dns_servers |-> offer.dns_servers, lease_time |-> offer.lease_time,
             renewal_time |-> ren.value, rebinding_time |-> reb.value]
       ELSE offer

\* lines 337-356: the Request record
DhcpRequestInfo(p, dhcp, dhcp_len, pos, t) ==
  LET rip == parse_dhcp_options(dhcp, dhcp_len, pos, DHCP_OPTION_REQUESTED_IP, 4)
      sid == parse_dhcp_options(dhcp, dhcp_len, rip.pos, DHCP_OPTION_SERVER_ID, 4)
      h == parse_dhcp_options(dhcp, dhcp_len, sid.pos, DHCP_OPTION_HOST_NAME, 63)
  IN [packet_size |-> p.len, timestamp |-> t, mac_addr |-> SubBytes(dhcp, 28, 6),
      requested_ip |-> rip.value, server_ip |-> sid.value,
      hostname_len |-> AsU8(h.ret), hostname |-> h.value]

\* a variant of the store-and-emit tail that writes the record only when the
\* event can be reserved
DhcpStoreEmit_NeedsRoom(p, store, st, room, store_ok, t, which, counter, event_type, key, info) ==
  IF store_ok /\ room
    THEN DhcpOut(which, [store EXCEPT ![which] = MapPut(@, key, info)],
                 [st EXCEPT ![counter] = @ + 1],
                 send_dhcp_event(room, p, key, info, event_type, t), FALSE, FALSE)
    ELSE DhcpOut("store_failed", store, [st EXCEPT !.errors = @ + 1], NoEvent, ~room, ~store_ok)

\* the store-and-emit tail shared by the four message types
DhcpStoreEmit(p, store, st, room, store_ok, t, which, counter, event_type, key, info) ==
  IF store_ok
    THEN DhcpOut(which, [store EXCEPT ![which] = MapPut(@, key, info)],
                 [st EXCEPT ![counter] = @ + 1, !.errors = IF room THEN @ ELSE @ + 1],
                 send_dhcp_event(room, p, key, info, event_type, t), ~room, FALSE)
    ELSE DhcpOut("store_failed", store, [st EXCEPT !.errors = @ + 1], NoEvent, FALSE, TRUE)

\* a variant that compares the first byte of the cookie only
CookieMismatch_FirstByte(dhcp) == B(dhcp, 236) # DHCP_MAGIC_COOKIE[1]

\* lines 246-247: the four bytes at offset 236 are not 0x63825363
CookieMismatch(dhcp) == SubBytes(dhcp, 236, 4) # DHCP_MAGIC_COOKIE

dhcp_socket_filter(p, store, st, room, store_ok, t) ==
  LET dhcp == p.payload
      dhcp_len == p.udp_len - UDP_HLEN
      key == DhcpKey(dhcp)
      mt == parse_dhcp_options(dhcp, dhcp_len, DHCP_HLEN, DHCP_OPTION_MESSAGE_TYPE, 1)
      message_type == IF mt.ret = 1 THEN mt.value[1] ELSE 0
  IN IF p.len < ETH_HLEN + IP_HLEN + UDP_HLEN
       THEN DhcpOut("short_frame", store, st, NoEvent, FALSE, FALSE)
     ELSE IF p.eth_proto # ETH_P_IP \/ p.protocol # IPPROTO_UDP
       THEN DhcpOut("not_udp", store, st, NoEvent, FALSE, FALSE)
     ELSE IF {p.dport, p.sport} \cap {DHCP_SERVER_PORT} = {}
             /\ {p.dport, p.sport} \cap {DHCP_CLIENT_PORT} = {}
       THEN DhcpOut("not_dhcp", store, st, NoEvent, FALSE, FALSE)
     ELSE IF dhcp_len > Len(dhcp) \/ dhcp_len < DHCP_HLEN
       THEN DhcpOut("short_dhcp", store, st, NoEvent, FALSE, FALSE)
     ELSE IF CookieMismatch(dhcp)
       THEN DhcpOut("bad_cookie", store, [st EXCEPT !.invalid = @ + 1], NoEvent, FALSE, FALSE)
     ELSE IF message_type = 1
       THEN DhcpStoreEmit(p, store, st, room, store_ok, t, "discover", "discovers", 1, key,
                          DhcpDiscoverInfo(p, dhcp, dhcp_len, mt.pos, t))
     ELSE IF message_type = 2
       THEN DhcpStoreEmit(p, store, st, room, store_ok, t, "offer", "offers", 2, key,
                          DhcpOfferInfo(p, dhcp, dhcp_len, mt.pos, t, FALSE))
     ELSE IF message_type = 3
       THEN DhcpStoreEmit(p, store, st, room, store_ok, t, "request", "requests", 3, key,
                          DhcpRequestInfo(p, dhcp, dhcp_len, mt.pos, t))
     ELSE IF message_type = 5
       THEN DhcpStoreEmit(p, store, st, room, store_ok, t, "ack", "acks", 4, key,
                          DhcpOfferInfo(p, dhcp, dhcp_len, mt.pos, t, TRUE))
     ELSE DhcpOut("ignored", store, st, NoEvent, FALSE, FALSE)

\* ------------------------------------------------------------------------
\* tc_offload.c
\* ------------------------------------------------------------------------
\* extract_flow_key: ok = FALSE stands for the return value -1
extract_flow_key(p) ==
  LET l4 == ETH_HLEN + p.ihl * 4
      key == [src_ip |-> p.saddr, dst_ip |-> p.daddr, ip_proto |-> p.protocol,
              src_port |-> IF p.protocol \in {IPPROTO_TCP, IPPROTO_UDP} THEN p.sport ELSE 0,
              dst_port |-> IF p.protocol \in {IPPROTO_TCP, IPPROTO_UDP} THEN p.dport ELSE 0,
              ifindex |-> p.ifindex]
  IN IF p.frame_len < ETH_HLEN + IP_HLEN THEN [ok |-> FALSE]
     ELSE IF p.eth_proto # ETH_P_IP THEN [ok |-> FALSE]
     ELSE IF p.protocol = IPPROTO_TCP /\ l4 + TCP_HLEN > p.frame_len THEN [ok |-> FALSE]
     ELSE IF p.protocol = IPPROTO_UDP /\ l4 + UDP_HLEN > p.frame_len THEN [ok |-> FALSE]
     ELSE [ok |-> TRUE, key |-> key]

\* a variant that swaps the addresses and leaves the ports where they are
SwapKey_AddressesOnly(key) ==
  [key EXCEPT !.src_ip = key.dst_ip, !.dst_ip = key.src_ip]

\* lines 211-218 of tc_egress_fast_path
SwapKey(key) ==
  [key EXCEPT !.src_ip = key.dst_ip, !.dst_ip = key.src_ip,
              !.src_port = key.dst_port, !.dst_port = key.src_port]

HasBit(x, bit) == (x \div bit) % 2 = 1

BitOr1(x, bit) == IF HasBit(x, bit) THEN x ELSE x + bit

\* apply_qos that marks the packet but leaves the scheduling priority alone
apply_qos_NoPriority(skb, state, qos) ==
  IF state.qos_profile = QOS_PROFILE_DEFAULT THEN skb
  ELSE IF state.qos_profile \notin DOMAIN qos THEN skb
  ELSE [skb EXCEPT !.mark = BitOr1(@, QOS_MARK_BIT)]

\* apply_qos on the skb fields; always returns TC_ACT_OK
apply_qos(skb, state, qos) ==
  IF state.qos_profile = QOS_PROFILE_DEFAULT THEN skb
  ELSE IF state.qos_profile \notin DOMAIN qos THEN skb
  ELSE LET q == qos[state.qos_profile]
       IN [skb EXCEPT !.priority = q.priority,
                      !.queue_mapping = IF q.app_class \in {QOS_PROFILE_VIDEO, QOS_PROFILE_VOICE}
                                          THEN q.app_class ELSE @,
                      !.mark = BitOr1(@, QOS_MARK_BIT)]

update_stats(st, packets, bytes, fast_path, slow_path, dropped) ==
  [st EXCEPT !.packets_processed = @ + packets, !.bytes_processed = @ + bytes,
             !.packets_fast_path = @ + fast_path, !.packets_slow_path = @ + slow_path,
             !.packets_dropped = @ + dropped]

SkbOf(p) == [mark |-> p.mark, priority |-> p.priority, queue_mapping |-> p.queue_mapping]

TcOut(ret, skb, fm, st) == [ret |-> ret, skb |-> skb, fm |-> fm, st |-> st]

\* the verdict dispatch with the drop verdict compared against the XDP code
TcIngressVerdict_XdpCode(p, state, fm2, qos, st) ==
  IF state.verdict = VERDICT_TRUSTED
    THEN TcOut(TC_ACT_OK,
               apply_qos([SkbOf(p) EXCEPT !.mark = NFQUEUE_BYPASS_MARK], state, qos),
               fm2, update_stats(st, 1, p.len, 1, 0, 0))
  ELSE IF state.verdict = XDP_DROP
    THEN TcOut(TC_ACT_SHOT, SkbOf(p), fm2, update_stats(st, 1, p.len, 0, 0, 1))
  ELSE TcOut(TC_ACT_OK, SkbOf(p), fm2, update_stats(st, 1, p.len, 0, 1, 0))

\* lines 170-197 of tc_fast_path: the verdict dispatch on the flow entry
TcIngressVerdict(p, state, fm2, qos, st) ==
  IF state.verdict = VERDICT_TRUSTED
    THEN TcOut(TC_ACT_OK,
               apply_qos([SkbOf(p) EXCEPT !.mark = NFQUEUE_BYPASS_MARK], state, qos),
               fm2, update_stats(st, 1, p.len, 1, 0, 0))
  ELSE IF state.verdict = VERDICT_DROP
    THEN TcOut(TC_ACT_SHOT, SkbOf(p), fm2, update_stats(st, 1, p.len, 0, 0, 1))
  ELSE TcOut(TC_ACT_OK, SkbOf(p), fm2, update_stats(st, 1, p.len, 0, 1, 0))

tc_fast_path(p, fm, qos, st, t) ==
  LET k == extract_flow_key(p)
  IN IF ~k.ok THEN TcOut(TC_ACT_OK, SkbOf(p), fm, update_stats(st, 1, p.len, 0, 1, 0))
     ELSE IF k.key \notin DOMAIN fm
       THEN TcOut(TC_ACT_OK, SkbOf(p), fm, update_stats(st, 1, p.len, 0, 1, 0))
     ELSE LET state == [fm[k.key] EXCEPT !.packet_count = @ + 1,
                                         !.byte_count = @ + p.len,
                                         !.last_seen = @ + t]
          IN TcIngressVerdict(p, state, MapPut(fm, k.key, state), qos, st)

tc_egress_fast_path(p, fm, st) ==
  LET k == extract_flow_key(p)
      key == SwapKey(k.key)
  IN IF ~k.ok THEN TcOut(TC_ACT_OK, SkbOf(p), fm, st)
     ELSE IF key \notin DOMAIN fm THEN TcOut(TC_ACT_OK, SkbOf(p), fm, st)
     ELSE LET state == [fm[key] EXCEPT !.packet_count = @ + 1, !.byte_count = @ + p.len]
              fm2 == MapPut(fm, key, state)
          IN IF state.verdict = VERDICT_TRUSTED
               THEN TcOut(TC_ACT_OK, [SkbOf(p) EXCEPT !.mark = NFQUEUE_BYPASS_MARK], fm2, st)
             ELSE IF state.verdict = VERDICT_DROP
               THEN TcOut(TC_ACT_SHOT, SkbOf(p), fm2, st)
             ELSE TcOut(TC_ACT_OK, SkbOf(p), fm2, st)

\* ------------------------------------------------------------------------
\* Initial state: the programs are loaded, every map is empty, every counter
\* is zero, and the clock has a positive value
\* ------------------------------------------------------------------------
CPUs == {1, 2}

IdleCpu == [pc |-> "idle"]

XdpStatsZero ==
  [packets_processed |-> 0, packets_dropped |-> 0, packets_passed |-> 0,
   bytes_processed |-> 0, flows_offloaded |-> 0]

TcStatsZero ==
  [packets_processed |-> 0, packets_fast_path |-> 0, packets_slow_path |-> 0,
   packets_dropped |-> 0, bytes_processed |-> 0]

HistZero ==
  [npkts |-> 0, ticks |-> 0, admitted |-> <<>>,
   dropped |-> [e \in {"xdp", "dns", "tls", "dhcp"} |-> 0],
   other_failures |-> [e \in {"xdp", "dns", "tls", "dhcp"} |-> 0],
   xdp_counted |-> 0,
   counted |-> [h \in {"xdp", "tc"} |-> [n |-> 0, bytes |-> 0]],
   clocks |-> [h \in {"xdp", "tc"} |-> {}]]

Init ==
  /\ now = 1
  /\ ip_blocklist = <<>>
  /\ xdp_flow_map = <<>>
  /\ xdp_stats = XdpStatsZero
  /\ dns_bloom = <<>>
  /\ xdp_events = <<>>
  /\ tc_flow_map = <<>>
  /\ qos_profiles = [i \in 0..(QOS_MAX_ENTRIES - 1) |-> [priority |-> 0, app_class |-> 0]]
  /\ tc_stats = TcStatsZero
  /\ dns_queries = <<>>
  /\ dns_responses = <<>>
  /\ dns_stats = [errors |-> 0, queries_processed |-> 0, responses_processed |-> 0]
  /\ dns_events = <<>>
  /\ tls_handshakes = <<>>
  /\ tls_stats = [errors |-> 0, handshakes_observed |-> 0]
  /\ tls_events = <<>>
  /\ dhcp_store = [t \in {"discover", "offer", "request", "ack"} |-> <<>>]
  /\ dhcp_stats = [errors |-> 0, invalid |-> 0, discovers |-> 0, offers |-> 0,
                   requests |-> 0, acks |-> 0]
  /\ dhcp_events = <<>>
  /\ last = [prog |-> "none"]
  /\ hist = HistZero
  /\ cpu = [c \in CPUs |-> IdleCpu]
  /\ nm = [called |-> FALSE]

\* ------------------------------------------------------------------------
\* The rate limiter on its own: rate_limit_check called for a source IP at
\* the current clock value, and the clock advancing between calls
\* ------------------------------------------------------------------------
IPs == {1, 2}

RateSteps == {1000000, 999000000, 1000000000, 1100000000}

MaxRateTicks == 4

RateCall(ip) ==
  LET r == rate_limit_check(ip_blocklist, ip, now)
  IN /\ ip_blocklist' = r.bl
     /\ last' = [prog |-> "rate_limit_check", ip |-> ip, allowed |-> r.allowed,
                 t |-> now, admitted_before |-> hist.admitted,
                 bl_before |-> ip_blocklist, bl_after |-> r.bl]
     /\ hist' = IF r.allowed = 1
                  THEN [hist EXCEPT !.admitted = MapPut(@, ip, now)]
                  ELSE hist
     /\ UNCHANGED <<now, xdp_flow_map, xdp_stats, dns_bloom, xdp_events, tcVars,
                    dnsVars, tlsVars, dhcpVars, cpu, nm>>

RateTick(d) ==
  /\ hist.ticks < MaxRateTicks
  /\ now <= MaxRateNow - d
  /\ now' = now + d
  /\ hist' = [hist EXCEPT !.ticks = @ + 1]
  /\ UNCHANGED <<xdpVars, tcVars, dnsVars, tlsVars, dhcpVars, last, cpu, nm>>

NextRate ==
  \/ \E ip \in IPs : RateCall(ip)
  \/ \E d \in RateSteps : RateTick(d)

SpecRate == Init /\ [][NextRate]_vars

C6_WitnessRejected ==
  /\ last.prog = "rate_limit_check"
  /\ last.allowed = 0
  /\ last.t - last.admitted_before[last.ip] = 1000000

\* ------------------------------------------------------------------------
\* The verdict engine (tc_offload.c) with the control plane that owns the
\* flow verdicts and the QoS profile table
\* ------------------------------------------------------------------------
TcStateNew(verdict, qos) ==
  [first_seen |-> 0, last_seen |-> 0, packet_count |-> 0, byte_count |-> 0,
   verdict |-> verdict, offload_mark |-> 0, qos_profile |-> qos, flags |-> 0]

\* a frame as both hooks see it: len is the frame length (skb->len, and
\* data_end - data), payload the bytes behind the 8 bytes of L4 header
Pkt(frame_len, eth, proto, src, dst, sp, dp, payload) ==
  [len |-> frame_len, frame_len |-> frame_len, eth_proto |-> eth, protocol |-> proto,
   ihl |-> 5, frag |-> FALSE, tot_len |-> frame_len - ETH_HLEN,
   saddr |-> src, daddr |-> dst, sport |-> sp, dport |-> dp, ifindex |-> 1,
   payload |-> payload, udp_len |-> UDP_HLEN + Len(payload), doff |-> 5,
   mark |-> 0, priority |-> 0, queue_mapping |-> 0]

TcPkt(frame_len, eth, proto, src, dst, sp, dp) ==
  Pkt(frame_len, eth, proto, src, dst, sp, dp, <<>>)

\* packets offered to the tc hooks: a TCP flow in both directions, a truncated
\* TCP segment, an ARP frame and an ICMP packet
TcPackets ==
  { TcPkt(60, ETH_P_IP, IPPROTO_TCP, 1, 2, 1000, 443),
    TcPkt(60, ETH_P_IP, IPPROTO_TCP, 2, 1, 443, 1000),
    TcPkt(50, ETH_P_IP, IPPROTO_TCP, 1, 2, 1000, 443),
    TcPkt(60, ETH_P_ARP, 0, 0, 0, 0, 0),
    TcPkt(60, ETH_P_IP, IPPROTO_ICMP, 1, 2, 0, 0) }

TcKeys ==
  { [src_ip |-> 1, dst_ip |-> 2, ip_proto |-> IPPROTO_TCP, src_port |-> 1000,
     dst_port |-> 443, ifindex |-> 1],
    [src_ip |-> 1, dst_ip |-> 2, ip_proto |-> IPPROTO_ICMP, src_port |-> 0,
     dst_port |-> 0, ifindex |-> 1] }

QosChoices ==
  { [priority |-> 6, app_class |-> QOS_PROFILE_VIDEO],
    [priority |-> 2, app_class |-> 1] }

\* control plane: set (or create) the verdict and QoS profile of a flow
CtlSetFlow(key, verdict, qos) ==
  /\ tc_flow_map' = IF key \in DOMAIN tc_flow_map
                      THEN MapPut(tc_flow_map, key,
                                  [tc_flow_map[key] EXCEPT !.verdict = verdict,
                                                           !.qos_profile = qos])
                      ELSE MapPut(tc_flow_map, key, TcStateNew(verdict, qos))
  /\ last' = [prog |-> "control"]
  /\ UNCHANGED <<now, xdpVars, qos_profiles, tc_stats, dnsVars, tlsVars, dhcpVars,
                 hist, cpu, nm>>

\* control plane: write one entry of the QoS profile table
CtlSetQos(id, prof) ==
  /\ qos_profiles' = [qos_profiles EXCEPT ![id] = prof]
  /\ last' = [prog |-> "control"]
  /\ UNCHANGED <<now, xdpVars, tc_flow_map, tc_stats, dnsVars, tlsVars, dhcpVars,
                 hist, cpu, nm>>

TcIngress(p) ==
  LET r == tc_fast_path(p, tc_flow_map, qos_profiles, tc_stats, now)
  IN /\ hist.npkts < MaxTcPackets
     /\ tc_flow_map' = r.fm
     /\ tc_stats' = r.st
     /\ last' = [prog |-> "tc_fast_path", pkt |-> p, ret |-> r.ret, skb |-> r.skb,
                 fm_before |-> tc_flow_map, qos |-> qos_profiles]
     /\ hist' = [hist EXCEPT !.npkts = @ + 1]
     /\ UNCHANGED <<now, xdpVars, qos_profiles, dnsVars, tlsVars, dhcpVars, cpu, nm>>

TcEgress(p) ==
  LET r == tc_egress_fast_path(p, tc_flow_map, tc_stats)
  IN /\ hist.npkts < MaxTcPackets
     /\ tc_flow_map' = r.fm
     /\ tc_stats' = r.st
     /\ last' = [prog |-> "tc_egress_fast_path", pkt |-> p, ret |-> r.ret, skb |-> r.skb,
                 fm_before |-> tc_flow_map, qos |-> qos_profiles]
     /\ hist' = [hist EXCEPT !.npkts = @ + 1]
     /\ UNCHANGED <<now, xdpVars, qos_profiles, dnsVars, tlsVars, dhcpVars, cpu, nm>>

NextTc ==
  \/ \E k \in TcKeys, v \in {VERDICT_UNKNOWN, VERDICT_TRUSTED, VERDICT_DROP},
        q \in {QOS_PROFILE_DEFAULT, 3, QOS_MAX_ENTRIES} : CtlSetFlow(k, v, q)
  \/ \E prof \in QosChoices : CtlSetQos(3, prof)
  \/ \E p \in TcPackets : TcIngress(p)
  \/ \E p \in TcPackets : TcEgress(p)

SpecTc == Init /\ [][NextTc]_vars

\* the flow key of a packet with complete headers, as the claims describe it
PacketKey(p) ==
  [src_ip |-> p.saddr, dst_ip |-> p.daddr, ip_proto |-> p.protocol,
   src_port |-> p.sport, dst_port |-> p.dport, ifindex |-> p.ifindex]

PacketKeySwapped(p) ==
  [src_ip |-> p.daddr, dst_ip |-> p.saddr, ip_proto |-> p.protocol,
   src_port |-> p.dport, dst_port |-> p.sport, ifindex |-> p.ifindex]

HeadersComplete(p) ==
  /\ p.eth_proto = ETH_P_IP
  /\ p.frame_len >= ETH_HLEN + IP_HLEN
  /\ p.protocol = IPPROTO_TCP => p.frame_len >= ETH_HLEN + p.ihl * 4 + TCP_HLEN
  /\ p.protocol = IPPROTO_UDP => p.frame_len >= ETH_HLEN + p.ihl * 4 + UDP_HLEN

\* C4: a packet whose flow entry has verdict Drop is rejected with TC_ACT_SHOT,
\* by tc_fast_path when the entry is stored under the packet's key and by
\* tc_egress_fast_path when it is stored under the swapped key.
C4_DropIsShot ==
  /\ (/\ last.prog = "tc_fast_path"
      /\ HeadersComplete(last.pkt)
      /\ PacketKey(last.pkt) \in DOMAIN last.fm_before
      /\ last.fm_before[PacketKey(last.pkt)].verdict = VERDICT_DROP)
       => last.ret = TC_ACT_SHOT
  /\ (/\ last.prog = "tc_egress_fast_path"
      /\ HeadersComplete(last.pkt)
      /\ PacketKeySwapped(last.pkt) \in DOMAIN last.fm_before
      /\ last.fm_before[PacketKeySwapped(last.pkt)].verdict = VERDICT_DROP)
       => last.ret = TC_ACT_SHOT

\* an egress packet of a flow whose entry, under the swapped key, says Drop
C4_Witness ==
  /\ last.prog = "tc_egress_fast_path"
  /\ HeadersComplete(last.pkt)
  /\ PacketKeySwapped(last.pkt) \in DOMAIN last.fm_before
  /\ last.fm_before[PacketKeySwapped(last.pkt)].verdict = VERDICT_DROP
  /\ last.ret = TC_ACT_SHOT

C4_WitnessIngress ==
  /\ last.prog = "tc_fast_path"
  /\ HeadersComplete(last.pkt)
  /\ PacketKey(last.pkt) \in DOMAIN last.fm_before
  /\ last.fm_before[PacketKey(last.pkt)].verdict = VERDICT_DROP
  /\ last.ret = TC_ACT_SHOT

TrustPkt == Pkt(60, ETH_P_IP, IPPROTO_TCP, 1, 2, 1000, 443, <<>>)

TrustXdp(p) ==
  LET r == xdp_blocklist_prog(p, ip_blocklist, xdp_flow_map, xdp_stats, dns_bloom,
                              HasRoom(xdp_events), now)
  IN /\ hist.npkts < MaxTrustPackets
     /\ ip_blocklist' = r.bl
     /\ xdp_flow_map' = r.fm
     /\ xdp_stats' = r.st
     /\ xdp_events' = RingAfter(xdp_events, r.ev)
     /\ last' = [prog |-> "xdp_blocklist_prog", pkt |-> p, ret |-> r.ret, why |-> r.why]
     /\ hist' = [hist EXCEPT !.npkts = @ + 1]
     /\ UNCHANGED <<now, dns_bloom, tcVars, dnsVars, tlsVars, dhcpVars, cpu, nm>>

\* control plane: remove a source IP from ip_blocklist
CtlUnblock(ip) ==
  /\ ip \in DOMAIN ip_blocklist
  /\ ip_blocklist' = MapDelete(ip_blocklist, ip)
  /\ last' = [prog |-> "control"]
  /\ UNCHANGED <<now, xdp_flow_map, xdp_stats, dns_bloom, xdp_events, tcVars, dnsVars,
                 tlsVars, dhcpVars, hist, cpu, nm>>

\* the consumer of the XDP events channel takes the oldest event
XdpConsume ==
  /\ xdp_events # <<>>
  /\ xdp_events' = Tail(xdp_events)
  /\ last' = [prog |-> "consumer"]
  /\ UNCHANGED <<now, ip_blocklist, xdp_flow_map, xdp_stats, dns_bloom, tcVars, dnsVars,
                 tlsVars, dhcpVars, hist, cpu, nm>>

TrustTc(p) ==
  LET r == tc_fast_path(p, tc_flow_map, qos_profiles, tc_stats, now)
  IN /\ tc_stats.packets_processed < MaxTcPackets
     /\ tc_flow_map' = r.fm
     /\ tc_stats' = r.st
     /\ last' = [prog |-> "tc_fast_path", pkt |-> p, ret |-> r.ret, skb |-> r.skb,
                 fm_before |-> tc_flow_map, qos |-> qos_profiles]
     /\ UNCHANGED <<now, xdpVars, qos_profiles, dnsVars, tlsVars, dhcpVars, hist, cpu, nm>>

NextTrust ==
  \/ TrustXdp(TrustPkt)
  \/ CtlUnblock(TrustPkt.saddr)
  \/ XdpConsume
  \/ TrustTc(TrustPkt)
  \/ /\ PacketKey(TrustPkt) \notin DOMAIN tc_flow_map
     /\ CtlSetFlow(PacketKey(TrustPkt), VERDICT_UNKNOWN, QOS_PROFILE_DEFAULT)

SpecTrust == Init /\ [][NextTrust]_vars

\* C3: once a flow has received more than 100 packets without an external
\* verdict it is Trusted, and the packets of the flow handled from then on
\* carry the bypass mark.
C3_TrustedAfter100 ==
  \A k \in DOMAIN xdp_flow_map :
    xdp_flow_map[k].packet_count > TRUST_PACKET_THRESHOLD =>
      /\ HasBit(xdp_flow_map[k].flags, TRUSTED_FLOW_FLAG)
      /\ (last.prog = "tc_fast_path" /\ XdpFlowKey(last.pkt) = k)
           => HasBit(last.skb.mark, NFQUEUE_BYPASS_MARK)

\* C3, the transition alone: the flow's verdict is Trusted from packet 101 on
C3_VerdictTrustedAfter100 ==
  \A k \in DOMAIN xdp_flow_map :
    xdp_flow_map[k].packet_count > TRUST_PACKET_THRESHOLD =>
      xdp_flow_map[k].verdict = VERDICT_TRUSTED

\* ------------------------------------------------------------------------
\* xdp_blocklist_prog on two CPUs at once.  One step is one access to a
\* shared map: the blocklist lookup, the rate limiter's lookup, its update,
\* the flow lookup, the flow insert (with the bookkeeping that follows it).
\* ------------------------------------------------------------------------
RacePackets ==
  { Pkt(60, ETH_P_IP, IPPROTO_TCP, 1, 2, 1000, 443, <<>>),
    Pkt(60, ETH_P_IP, IPPROTO_TCP, 1, 3, 1000, 443, <<>>) }

CpuDone(c, ret, missed, flow) ==
  [cpu EXCEPT ![c] = [pc |-> "done", pkt |-> cpu[c].pkt, ret |-> ret,
                      missed |-> missed, flow |-> flow]]

\* lines 199-235: the header checks (the packets offered pass them) and is_ip_blocked
RaceStart(c, p) ==
  /\ cpu[c].pc = "idle"
  /\ hist.npkts < MaxRacePackets
  /\ hist' = [hist EXCEPT !.npkts = @ + 1,
                          !.dropped["xdp"] = IF is_ip_blocked(ip_blocklist, p.saddr)
                                                  /\ ~HasRoom(xdp_events)
                                               THEN @ + 1 ELSE @]
  /\ IF is_ip_blocked(ip_blocklist, p.saddr)
       THEN /\ xdp_stats' = update_statistics(xdp_stats, 1, p.tot_len, 1)
            /\ xdp_events' = RingAfter(xdp_events,
                                send_event(HasRoom(xdp_events), 1, p.saddr, p.daddr, 0, 0,
                                           p.protocol, <<>>, now))
            /\ cpu' = [cpu EXCEPT ![c] = [pc |-> "done", pkt |-> p, ret |-> XDP_DROP,
                                          missed |-> FALSE, flow |-> "none"]]
       ELSE /\ cpu' = [cpu EXCEPT ![c] = [pc |-> "rl_lookup", pkt |-> p]]
            /\ UNCHANGED <<xdp_stats, xdp_events>>
  /\ last' = [prog |-> "xdp_step", cpu |-> c]
  /\ UNCHANGED <<now, ip_blocklist, xdp_flow_map, dns_bloom, tcVars, dnsVars, tlsVars,
                 dhcpVars, nm>>

\* lines 182-187 of rate_limit_check: read the clock, look the IP up, decide
RaceRateLookup(c) ==
  /\ cpu[c].pc = "rl_lookup"
  /\ IF RateAdmits(ip_blocklist, cpu[c].pkt.saddr, now)
       THEN /\ cpu' = [cpu EXCEPT ![c] = [pc |-> "rl_update", pkt |-> cpu[c].pkt, t |-> now]]
            /\ UNCHANGED xdp_stats
       ELSE /\ cpu' = CpuDone(c, XDP_DROP, FALSE, "none")
            /\ xdp_stats' = update_statistics(xdp_stats, 1, cpu[c].pkt.tot_len, 1)
  /\ last' = [prog |-> "xdp_step", cpu |-> c]
  /\ UNCHANGED <<now, ip_blocklist, xdp_flow_map, dns_bloom, xdp_events, tcVars, dnsVars,
                 tlsVars, dhcpVars, hist, nm>>

\* lines 189-192 of rate_limit_check: store the clock value read before
RaceRateUpdate(c) ==
  /\ cpu[c].pc = "rl_update"
  /\ ip_blocklist' = rate_limit_store(ip_blocklist, cpu[c].pkt.saddr, cpu[c].t)
  /\ cpu' = [cpu EXCEPT ![c] = [pc |-> "flow_lookup", pkt |-> cpu[c].pkt]]
  /\ last' = [prog |-> "xdp_step", cpu |-> c]
  /\ UNCHANGED <<now, xdp_flow_map, xdp_stats, dns_bloom, xdp_events, tcVars, dnsVars,
                 tlsVars, dhcpVars, hist, nm>>

\* lines 313-335 on the flow entry of the packet of CPU c
RaceFlowTail(c, fm, missed) ==
  LET p == cpu[c].pkt
      key == XdpFlowKey(p)
      fs == FlowCount(fm[key], p.tot_len, now)
      st2 == IF FlowOffloadedNow(fm[key])
               THEN [xdp_stats EXCEPT !.flows_offloaded = @ + 1] ELSE xdp_stats
  IN /\ xdp_flow_map' = MapPut(fm, key, fs)
     /\ xdp_stats' = update_statistics(st2, 1, p.tot_len,
                                       IF fs.verdict = XDP_DROP THEN 1 ELSE 0)
     /\ cpu' = CpuDone(c, IF fs.verdict = XDP_DROP THEN XDP_DROP ELSE XDP_PASS,
                       missed, "state")

\* line 157 of get_or_create_flow: the first lookup
RaceFlowLookup(c) ==
  /\ cpu[c].pc = "flow_lookup"
  /\ IF XdpFlowKey(cpu[c].pkt) \in DOMAIN xdp_flow_map
       THEN RaceFlowTail(c, xdp_flow_map, FALSE)
       ELSE /\ cpu' = [cpu EXCEPT ![c] = [pc |-> "flow_insert", pkt |-> cpu[c].pkt]]
            /\ UNCHANGED <<xdp_flow_map, xdp_stats>>
  /\ last' = [prog |-> "xdp_step", cpu |-> c]
  /\ UNCHANGED <<now, ip_blocklist, dns_bloom, xdp_events, tcVars, dnsVars, tlsVars,
                 dhcpVars, hist, nm>>

\* lines 162-176 of get_or_create_flow and lines 308-335 of the program
RaceFlowInsert(c) ==
  /\ cpu[c].pc = "flow_insert"
  /\ LET g == flow_insert(xdp_flow_map, XdpFlowKey(cpu[c].pkt), now)
     IN IF g.found
          THEN RaceFlowTail(c, g.fm, TRUE)
          ELSE /\ cpu' = CpuDone(c, XDP_PASS, TRUE, "null")
               /\ xdp_flow_map' = g.fm
               /\ UNCHANGED xdp_stats
  /\ last' = [prog |-> "xdp_step", cpu |-> c]
  /\ UNCHANGED <<now, ip_blocklist, dns_bloom, xdp_events, tcVars, dnsVars, tlsVars,
                 dhcpVars, hist, nm>>

\* the CPU takes the next packet
RaceFinish(c) ==
  /\ cpu[c].pc = "done"
  /\ hist.npkts < MaxRacePackets
  /\ cpu' = [cpu EXCEPT ![c] = IdleCpu]
  /\ last' = [prog |-> "xdp_step", cpu |-> c]
  /\ UNCHANGED <<now, xdpVars, tcVars, dnsVars, tlsVars, dhcpVars, hist, nm>>

NextRace ==
  \/ \E c \in CPUs, p \in RacePackets : RaceStart(c, p)
  \/ \E c \in CPUs : RaceRateLookup(c)
  \/ \E c \in CPUs : RaceRateUpdate(c)
  \/ \E c \in CPUs : RaceFlowLookup(c)
  \/ \E c \in CPUs : RaceFlowInsert(c)
  \/ \E c \in CPUs : RaceFinish(c)

SpecRace == Init /\ [][NextRace]_vars

\* C1: when two invocations for the same flow key both missed the first
\* lookup of get_or_create_flow, one flow entry exists for the key afterwards
\* and both invocations continued with it.
C1_LoserRefetchesWinner ==
  \A c1 \in CPUs, c2 \in CPUs :
    (/\ c1 # c2
     /\ cpu[c1].pc = "done" /\ cpu[c2].pc = "done"
     /\ cpu[c1].missed /\ cpu[c2].missed
     /\ XdpFlowKey(cpu[c1].pkt) = XdpFlowKey(cpu[c2].pkt))
      => /\ XdpFlowKey(cpu[c1].pkt) \in DOMAIN xdp_flow_map
         /\ cpu[c1].flow = "state"
         /\ cpu[c2].flow = "state"

\* the part of C1 the code keeps: the key never gets a second, divergent entry
\* and the winner's counters are not overwritten by the loser
C1_OneEntryPerKey ==
  \A c \in CPUs :
    (cpu[c].pc = "done" /\ cpu[c].missed) => XdpFlowKey(cpu[c].pkt) \in DOMAIN xdp_flow_map

\* ------------------------------------------------------------------------
\* parse_dns_name on its own: a 12-byte DNS header followed by every byte
\* string of at most MaxNameBytes bytes over NameBytes, parsed from offset 12
\* with the name buffer of the DNS dissector
\* ------------------------------------------------------------------------
MaxNameBytes == 4

\* label lengths 0 and 1, the letter 'a', the pointer tag 0xC0 and the
\* offsets 12 and 13, which a pointer byte pair turns into a loop
NameBytes == {0, 1, 97, 192, 12, 13}

DnsHeader(id, flags, qd, an) ==
  <<id \div 256, id % 256, flags \div 256, flags % 256, 0, qd, 0, an, 0, 0, 0, 0>>

RECURSIVE SeqsUpTo(_, _)
SeqsUpTo(S, n) ==
  IF n = 0 THEN {<<>>}
  ELSE LET shorter == SeqsUpTo(S, n - 1)
       IN shorter \cup {Append(q, x) : q \in {r \in shorter : Len(r) = n - 1}, x \in S}

NameParse(body) ==
  LET buf == DnsHeader(1, 256, 1, 0) \o body
  IN /\ ~nm.called
     /\ nm' = [called |-> TRUE, buf |-> buf,
               res |-> parse_dns_name(buf, Len(buf), DNS_HLEN, MAX_DOMAIN_LEN)]
     /\ UNCHANGED <<now, xdpVars, tcVars, dnsVars, tlsVars, dhcpVars, last, hist, cpu>>

NextName == \E body \in SeqsUpTo(NameBytes, MaxNameBytes) : NameParse(body)

SpecName == Init /\ [][NextName]_vars

\* C10: parse_dns_name never performs more than 5 compression-pointer jumps.
C10_AtMostFiveJumps == nm.called => nm.res.jumps_done <= 5

\* what the code keeps of C10: the number of jumps is bounded, by 6, and the
\* seventh pointer is rejected as malformed
C10_AtMostSixJumps == nm.called => nm.res.jumps_done <= 6

\* ------------------------------------------------------------------------
\* The four programs that emit events, each invocation run without
\* interruption: xdp_blocklist_prog and the DNS, TLS and DHCP socket
\* filters, with the consumers of the event channels, the clock, and the
\* control plane that owns the blocklist and the domain filter
\* ------------------------------------------------------------------------
Emitters == {"xdp", "dns", "tls", "dhcp"}

\* what a read of memory the program never wrote may return
Garbage == {0, 170}

UdpPkt(src, dst, sp, dp, payload) ==
  Pkt(ETH_HLEN + IP_HLEN + UDP_HLEN + Len(payload), ETH_P_IP, IPPROTO_UDP, src, dst, sp, dp,
      payload)

TcpPkt(src, dst, sp, dp, payload) ==
  Pkt(ETH_HLEN + IP_HLEN + TCP_HLEN + Len(payload), ETH_P_IP, IPPROTO_TCP, src, dst, sp, dp,
      payload)

\* the question section for the name "a", type A, class IN
QuestionA == <<1, 97, 0, 0, 1, 0, 1>>

DnsQueryPkt == UdpPkt(1, 2, 1000, DNS_PORT, DnsHeader(7, 0, 1, 0) \o QuestionA)

DnsResponsePkt == UdpPkt(2, 1, DNS_PORT, 1000, DnsHeader(7, 32768, 1, 1) \o QuestionA)

\* a query whose name starts with a label of length 5 with one byte behind it
DnsLabelOutsidePkt == UdpPkt(1, 2, 1000, DNS_PORT, DnsHeader(8, 0, 1, 0) \o <<5, 97>>)

\* a query whose name is a compression pointer to offset 200 of a 14-byte message
DnsPointerOutsidePkt == UdpPkt(1, 2, 1000, DNS_PORT, DnsHeader(8, 0, 1, 0) \o <<192, 200>>)

\* a query, its response, an 11-byte and a 5-byte payload, a 3-byte payload
\* whose UDP length field announces 12 bytes, and the two queries whose name
\* refers outside the message
DnsPackets ==
  { DnsQueryPkt, DnsResponsePkt,
    UdpPkt(1, 2, 1000, DNS_PORT, <<0, 7, 0, 0, 0, 1, 0, 0, 0, 0, 0>>),
    UdpPkt(2, 1, DNS_PORT, 1000, <<0, 7, 128, 0, 0>>),
    [UdpPkt(1, 2, 1000, DNS_PORT, <<0, 7, 0>>) EXCEPT !.udp_len = UDP_HLEN + DNS_HLEN],
    DnsLabelOutsidePkt, DnsPointerOutsidePkt }

\* a ClientHello as parse_tls_sni walks it, carrying the server name "a"
ClientHelloBytes ==
  <<22, 3, 1, 0, 20, 1, 0, 0, 16, 0, 0, 0, 0, 0, 10, 0, 0, 0, 6, 0, 4, 0, 0, 1, 97>>

\* a ClientHello, a 3-byte payload, and 7-byte and 8-byte payloads that start
\* a handshake record with a ClientHello type byte
TlsPackets ==
  { TcpPkt(1, 2, 1000, 443, ClientHelloBytes),
    TcpPkt(1, 2, 1000, 443, <<22, 3, 1>>),
    TcpPkt(1, 2, 1000, 443, <<22, 3, 1, 0, 20, 1, 0>>),
    TcpPkt(1, 2, 1000, 443, <<22, 3, 1, 0, 20, 1, 0, 0>>) }

\* the fixed part of a DHCP message: op, xid at 4, chaddr at 28, cookie at 236
DhcpFixed(op, cookie, n) ==
  [i \in 1..n |-> IF i = 1 THEN op
                  ELSE IF i = 8 THEN 9
                  ELSE IF i = 34 THEN 5
                  ELSE IF i \in 237..240 THEN cookie[i - 236]
                  ELSE 0]

\* a Discover with a host name, an Ack, a message with a wrong cookie, and a
\* 239-byte payload
DhcpPackets ==
  { UdpPkt(0, 255, DHCP_CLIENT_PORT, DHCP_SERVER_PORT,
           DhcpFixed(1, DHCP_MAGIC_COOKIE, DHCP_HLEN) \o <<53, 1, 1, 12, 1, 104, 255>>),
    UdpPkt(2, 1, DHCP_SERVER_PORT, DHCP_CLIENT_PORT,
           DhcpFixed(2, DHCP_MAGIC_COOKIE, DHCP_HLEN) \o <<53, 1, 5, 255>>),
    UdpPkt(0, 255, DHCP_CLIENT_PORT, DHCP_SERVER_PORT,
           DhcpFixed(1, <<0, 0, 0, 0>>, DHCP_HLEN) \o <<53, 1, 1, 255>>),
    UdpPkt(0, 255, DHCP_CLIENT_PORT, DHCP_SERVER_PORT,
           DhcpFixed(1, DHCP_MAGIC_COOKIE, DHCP_HLEN - 1)) }

\* the source addresses the control plane may block, and the names it may
\* add to the domain filter
BlockableIps == {9}

BlockableDomains == {<<97>>}

\* a packet from an address nobody blocks, one from the blockable address,
\* and a DNS query for the blockable name
XdpPackets ==
  { TcpPkt(1, 2, 1000, 443, <<>>),
    UdpPkt(3, 2, 1000, DNS_PORT, DnsHeader(7, 0, 1, 0) \o QuestionA) }
  \cup { TcpPkt(ip, 2, 1000, 443, <<>>) : ip \in BlockableIps }

Observe(e, dropped, failed, counted) ==
  [hist EXCEPT !.npkts = @ + 1,
               !.dropped[e] = IF dropped THEN @ + 1 ELSE @,
               !.other_failures[e] = IF failed THEN @ + 1 ELSE @,
               !.xdp_counted = IF counted THEN @ + 1 ELSE @]

XdpPacket(p) ==
  LET room == HasRoom(xdp_events)
      r == xdp_blocklist_prog(p, ip_blocklist, xdp_flow_map, xdp_stats, dns_bloom, room, now)
      full == xdp_blocklist_prog(p, ip_blocklist, xdp_flow_map, xdp_stats, dns_bloom, TRUE, now)
      dropped == full.ev.present /\ ~room
  IN /\ hist.npkts < MaxPackets
     /\ ip_blocklist' = r.bl
     /\ xdp_flow_map' = r.fm
     /\ xdp_stats' = r.st
     /\ xdp_events' = RingAfter(xdp_events, r.ev)
     /\ last' = [prog |-> "xdp_blocklist_prog", pkt |-> p, ret |-> r.ret, why |-> r.why,
                 event_dropped |-> dropped]
     /\ hist' = Observe("xdp", dropped, FALSE, dropped /\ r.st # full.st)
     /\ UNCHANGED <<now, dns_bloom, tcVars, dnsVars, tlsVars, dhcpVars, cpu, nm>>

DnsPacket(p, store_ok, g) ==
  LET r == dns_socket_filter(p, dns_queries, dns_responses, dns_stats, HasRoom(dns_events),
                             store_ok, now, g)
      lookup_key == DnsKey(p.daddr, p.saddr, Bswap16(p.dport), Bswap16(p.sport),
                           U16(p.payload, 0))
      matched == r.why = "response" /\ lookup_key \in DOMAIN dns_queries
  IN /\ hist.npkts < MaxPackets
     /\ dns_queries' = r.q
     /\ dns_responses' = r.r
     /\ dns_stats' = r.st
     /\ dns_events' = RingAfter(dns_events, r.ev)
     /\ last' = [prog |-> "dns_socket_filter", pkt |-> p, ret |-> r.ret, why |-> r.why,
                 event_dropped |-> r.event_dropped, ev |-> r.ev, t |-> now,
                 matched |-> matched,
                 query |-> IF matched THEN [key |-> lookup_key,
                                            timestamp |-> dns_queries[lookup_key].timestamp]
                           ELSE [key |-> lookup_key, timestamp |-> 0]]
     /\ hist' = Observe("dns", r.event_dropped, r.other_failure, FALSE)
     /\ UNCHANGED <<now, xdpVars, tcVars, tlsVars, dhcpVars, cpu, nm>>

TlsPacket(p, store_ok, g) ==
  LET r == tls_socket_filter(p, tls_handshakes, tls_stats, HasRoom(tls_events), store_ok,
                             now, g)
  IN /\ hist.npkts < MaxPackets
     /\ tls_handshakes' = r.hs
     /\ tls_stats' = r.st
     /\ tls_events' = RingAfter(tls_events, r.ev)
     /\ last' = [prog |-> "tls_socket_filter", pkt |-> p, ret |-> r.ret, why |-> r.why,
                 event_dropped |-> r.event_dropped]
     /\ hist' = Observe("tls", r.event_dropped, r.other_failure, FALSE)
     /\ UNCHANGED <<now, xdpVars, tcVars, dnsVars, dhcpVars, cpu, nm>>

DhcpPacket(p, store_ok) ==
  LET r == dhcp_socket_filter(p, dhcp_store, dhcp_stats, HasRoom(dhcp_events), store_ok, now)
  IN /\ hist.npkts < MaxPackets
     /\ dhcp_store' = r.store
     /\ dhcp_stats' = r.st
     /\ dhcp_events' = RingAfter(dhcp_events, r.ev)
     /\ last' = [prog |-> "dhcp_socket_filter", pkt |-> p, ret |-> r.ret, why |-> r.why,
                 event_dropped |-> r.event_dropped]
     /\ hist' = Observe("dhcp", r.event_dropped, r.other_failure, FALSE)
     /\ UNCHANGED <<now, xdpVars, tcVars, dnsVars, tlsVars, cpu, nm>>

\* the consumer of a channel takes its oldest event
Consume(e) ==
  /\ (CASE e = "xdp" -> xdp_events [] e = "dns" -> dns_events
         [] e = "tls" -> tls_events [] e = "dhcp" -> dhcp_events) # <<>>
  /\ xdp_events' = IF e = "xdp" THEN Tail(xdp_events) ELSE xdp_events
  /\ dns_events' = IF e = "dns" THEN Tail(dns_events) ELSE dns_events
  /\ tls_events' = IF e = "tls" THEN Tail(tls_events) ELSE tls_events
  /\ dhcp_events' = IF e = "dhcp" THEN Tail(dhcp_events) ELSE dhcp_events
  /\ last' = [prog |-> "consumer"]
  /\ UNCHANGED <<now, ip_blocklist, xdp_flow_map, xdp_stats, dns_bloom, tcVars, dns_queries,
                 dns_responses, dns_stats, tls_handshakes, tls_stats, dhcp_store, dhcp_stats,
                 hist, cpu, nm>>

\* bpf_ktime_get_ns moves on
Tick ==
  /\ now < MaxNow
  /\ now' = now + 1
  /\ last' = [prog |-> "clock"]
  /\ UNCHANGED <<xdpVars, tcVars, dnsVars, tlsVars, dhcpVars, hist, cpu, nm>>

\* control plane: add a source IP to ip_blocklist
CtlBlock(ip) ==
  /\ ip \notin DOMAIN ip_blocklist
  /\ ip_blocklist' = MapPut(ip_blocklist, ip, 0)
  /\ last' = [prog |-> "control"]
  /\ UNCHANGED <<now, xdp_flow_map, xdp_stats, dns_bloom, xdp_events, tcVars, dnsVars,
                 tlsVars, dhcpVars, hist, cpu, nm>>

\* control plane: set the bit of a domain in dns_bloom
CtlBlockDomain(domain) ==
  LET bi == BloomIndex(domain)
      old == IF bi.index \in DOMAIN dns_bloom THEN dns_bloom[bi.index] ELSE 0
  IN /\ ~is_domain_blocked(dns_bloom, domain)
     /\ dns_bloom' = MapPut(dns_bloom, bi.index, old + 2 ^ bi.bit)
     /\ last' = [prog |-> "control"]
     /\ UNCHANGED <<now, ip_blocklist, xdp_flow_map, xdp_stats, xdp_events, tcVars, dnsVars,
                    tlsVars, dhcpVars, hist, cpu, nm>>

Next ==
  \/ \E p \in XdpPackets : XdpPacket(p)
  \/ \E p \in DnsPackets, store_ok \in BOOLEAN, g \in Garbage : DnsPacket(p, store_ok, g)
  \/ \E p \in TlsPackets, store_ok \in BOOLEAN, g \in Garbage : TlsPacket(p, store_ok, g)
  \/ \E p \in DhcpPackets, store_ok \in BOOLEAN : DhcpPacket(p, store_ok)
  \/ \E e \in Emitters : Consume(e)
  \/ Tick
  \/ \E ip \in BlockableIps : CtlBlock(ip)
  \/ \E domain \in BlockableDomains : CtlBlockDomain(domain)

Spec == Init /\ [][Next]_vars

\* C2: a response matching a stored query is reported with response_time_ns =
\* response_timestamp - query_timestamp, and the stored query is removed, so
\* that a second identical response finds no matching query.
C2_ResponseRemovesQuery ==
  (last.prog = "dns_socket_filter" /\ last.matched) =>
    /\ last.ev.present => last.ev.response_time_ns = last.t - last.query.timestamp
    /\ last.query.key \notin DOMAIN dns_queries

\* what the code keeps of C2: the response time reported for a matched response
C2_ResponseTimeReported ==
  (last.prog = "dns_socket_filter" /\ last.matched /\ last.ev.present) =>
    last.ev.response_time_ns = last.t - last.query.timestamp

C2_Reached ==
  last.prog = "dns_socket_filter" /\ last.matched /\ last.ev.present

\* the error counter of an emitter.  struct statistics of xdp_blocklist.c has
\* no error field: for send_event the count is of the invocations whose
\* dropped alert moved any field of statistics
ErrorCount(e) ==
  CASE e = "dns" -> dns_stats.errors
    [] e = "tls" -> tls_stats.errors
    [] e = "dhcp" -> dhcp_stats.errors
    [] e = "xdp" -> hist.xdp_counted

\* C7: for every emitter, over a run whose only failures are channel-full
\* failures, the error counter has increased by exactly the number of
\* dropped events.
C7_ErrorsCountDroppedEvents ==
  \A e \in Emitters : hist.other_failures[e] = 0 => ErrorCount(e) = hist.dropped[e]

\* what the code keeps of C7: the three socket filters count their dropped events
C7_SocketFiltersCountDroppedEvents ==
  \A e \in Emitters \ {"xdp"} :
    hist.other_failures[e] = 0 => ErrorCount(e) = hist.dropped[e]

C7_SocketFilterDropReached ==
  \E e \in Emitters \ {"xdp"} : hist.other_failures[e] = 0 /\ hist.dropped[e] > 0

\* the counters of a socket filter other than its error counter
NoErrors(st) == [st EXCEPT !.errors = 0]

\* C8: for any packet and any contents of the stores, the verdict and the
\* records written to the stores are the same whether the event reservation
\* succeeds or fails; only the event and the error counter differ.
C8_ReservationDoesNotChangeVerdictOrStores ==
  /\ \A p \in XdpPackets :
       LET a == xdp_blocklist_prog(p, ip_blocklist, xdp_flow_map, xdp_stats, dns_bloom, TRUE, now)
           b == xdp_blocklist_prog(p, ip_blocklist, xdp_flow_map, xdp_stats, dns_bloom, FALSE, now)
       IN a.ret = b.ret /\ a.bl = b.bl /\ a.fm = b.fm /\ a.st = b.st
  /\ \A p \in DnsPackets, store_ok \in BOOLEAN, g \in Garbage :
       LET a == dns_socket_filter(p, dns_queries, dns_responses, dns_stats, TRUE, store_ok, now, g)
           b == dns_socket_filter(p, dns_queries, dns_responses, dns_stats, FALSE, store_ok, now, g)
       IN a.ret = b.ret /\ a.q = b.q /\ a.r = b.r /\ NoErrors(a.st) = NoErrors(b.st)
  /\ \A p \in TlsPackets, store_ok \in BOOLEAN, g \in Garbage :
       LET a == tls_socket_filter(p, tls_handshakes, tls_stats, TRUE, store_ok, now, g)
           b == tls_socket_filter(p, tls_handshakes, tls_stats, FALSE, store_ok, now, g)
       IN a.ret = b.ret /\ a.hs = b.hs /\ NoErrors(a.st) = NoErrors(b.st)
  /\ \A p \in DhcpPackets, store_ok \in BOOLEAN :
       LET a == dhcp_socket_filter(p, dhcp_store, dhcp_stats, TRUE, store_ok, now)
           b == dhcp_socket_filter(p, dhcp_store, dhcp_stats, FALSE, store_ok, now)
       IN a.ret = b.ret /\ a.store = b.store /\ NoErrors(a.st) = NoErrors(b.st)

\* an invocation lost its event and still wrote its record
C8_Witness ==
  /\ last.prog = "dhcp_socket_filter"
  /\ last.event_dropped
  /\ last.why = "discover"
  /\ dhcp_store["discover"] # <<>>
  /\ Len(dhcp_events) = RingCap

\* the bytes of protocol payload a dissector finds in front of data_end
PayloadBytes(p) == Len(p.payload)

\* C9: a packet whose payload is shorter than the dissector's minimum header
\* (DNS 12, DHCP 240, TLS 5 + 4) is passed, changes no transaction or
\* handshake store, and emits no event.
C9_ShortPayloadPassedWithoutStateChange ==
  /\ \A p \in DnsPackets, room \in BOOLEAN, store_ok \in BOOLEAN, g \in Garbage :
       PayloadBytes(p) < DNS_HLEN =>
         LET r == dns_socket_filter(p, dns_queries, dns_responses, dns_stats, room, store_ok, now, g)
         IN r.ret = 0 /\ r.q = dns_queries /\ r.r = dns_responses /\ ~r.ev.present
  /\ \A p \in DhcpPackets, room \in BOOLEAN, store_ok \in BOOLEAN :
       PayloadBytes(p) < DHCP_HLEN =>
         LET r == dhcp_socket_filter(p, dhcp_store, dhcp_stats, room, store_ok, now)
         IN r.ret = 0 /\ r.store = dhcp_store /\ ~r.ev.present
  /\ \A p \in TlsPackets, room \in BOOLEAN, store_ok \in BOOLEAN, g \in Garbage :
       PayloadBytes(p) < 5 + 4 =>
         LET r == tls_socket_filter(p, tls_handshakes, tls_stats, room, store_ok, now, g)
         IN r.ret = 0 /\ r.hs = tls_handshakes /\ ~r.ev.present

\* a short TLS payload was handled while a handshake was on record
C9_Witness ==
  /\ last.prog = "tls_socket_filter"
  /\ PayloadBytes(last.pkt) \in 5..8
  /\ last.ret = 0
  /\ tls_handshakes # <<>>

\* the first item of the question name is a label whose length runs past the
\* end of the DNS message
FirstLabelOutside(p) ==
  LET dns_len == p.udp_len - UDP_HLEN
      len == B(p.payload, DNS_HLEN)
  IN /\ Len(p.payload) >= dns_len /\ dns_len > DNS_HLEN
     /\ len # 0 /\ len \div 64 # 3
     /\ DNS_HLEN + 1 + len > dns_len

\* the first item of the question name is a compression pointer whose offset
\* lies at or behind the end of the DNS message
FirstPointerOutside(p) ==
  LET dns_len == p.udp_len - UDP_HLEN
      len == B(p.payload, DNS_HLEN)
  IN /\ Len(p.payload) >= dns_len /\ dns_len > DNS_HLEN + 1
     /\ len \div 64 = 3
     /\ (len % 64) * 256 + B(p.payload, DNS_HLEN + 1) >= dns_len

\* the packet is rejected as a malformed name: one more error, no transaction
\* stored or deleted, no event, packet passed
RejectedAsMalformed(p) ==
  \A room \in BOOLEAN, store_ok \in BOOLEAN, g \in Garbage :
    LET r == dns_socket_filter(p, dns_queries, dns_responses, dns_stats, room, store_ok, now, g)
    IN /\ r.ret = 0
       /\ r.st = [dns_stats EXCEPT !.errors = @ + 1]
       /\ r.q = dns_queries /\ r.r = dns_responses
       /\ ~r.ev.present

\* C11: a DNS packet whose question name contains a label length or a
\* compression-pointer offset that refers outside the DNS buffer is rejected
\* as a malformed name: the error counter goes up by one, no DNS transaction
\* is stored or deleted, no event is emitted, and the packet is passed.
C11_OutsideReferenceRejected ==
  \A p \in DnsPackets :
    (FirstLabelOutside(p) \/ FirstPointerOutside(p)) => RejectedAsMalformed(p)

\* what the code keeps of C11: a label length that runs past the end of the
\* message is rejected
C11_LabelOutsideRejected ==
  \A p \in DnsPackets : FirstLabelOutside(p) => RejectedAsMalformed(p)

\* a query with a label running past the end was handled and counted
C11_LabelOutsideReached ==
  /\ last.prog = "dns_socket_filter"
  /\ FirstLabelOutside(last.pkt)
  /\ last.why = "bad_name"
  /\ dns_stats.errors > 0

\* a query whose pointer leads outside the message was stored with an empty name
C11_PointerOutsideStored ==
  /\ last.prog = "dns_socket_filter"
  /\ FirstPointerOutside(last.pkt)
  /\ last.why = "query"

\* ------------------------------------------------------------------------
\* parse_dns_name on encoded names: a 12-byte DNS header, the uncompressed
\* encoding of a name of at most MaxLabels labels, and the question's type
\* and class, parsed from offset 12 with the name buffer of the DNS dissector
\* ------------------------------------------------------------------------
MaxLabels == 4

\* label lengths: short ones, the longest a length byte can announce, and 60,
\* which with three labels of 63 bytes fills the name buffer exactly
LabelLens == {1, 3, 60, 63}

\* the letter 'a' and the hyphen
LabelFill == {97, 45}

Labels == {[i \in 1..n |-> c] : n \in LabelLens, c \in LabelFill}

\* the wire form parse_dns_name reads: a length byte and the bytes of each
\* label, then a zero byte
RECURSIVE EncodeName(_)
EncodeName(labels) ==
  IF labels = <<>> THEN <<0>>
  ELSE <<Len(Head(labels))>> \o Head(labels) \o EncodeName(Tail(labels))

\* the labels joined by '.'
RECURSIVE Dotted(_)
Dotted(labels) ==
  IF Len(labels) = 1 THEN Head(labels)
  ELSE Head(labels) \o <<46>> \o Dotted(Tail(labels))

\* the names that fit a buffer of MAX_DOMAIN_LEN bytes with their terminator
DomainNames ==
  {labels \in SeqsUpTo(Labels, MaxLabels) :
     labels # <<>> /\ Len(Dotted(labels)) <= MAX_DOMAIN_LEN - 1}

EncodeParse(labels) ==
  LET buf == DnsHeader(1, 256, 1, 0) \o EncodeName(labels) \o <<0, 1, 0, 1>>
  IN /\ ~nm.called
     /\ nm' = [called |-> TRUE, labels |-> labels, buf |-> buf,
               res |-> parse_dns_name(buf, Len(buf), DNS_HLEN, MAX_DOMAIN_LEN)]
     /\ UNCHANGED <<now, xdpVars, tcVars, dnsVars, tlsVars, dhcpVars, last, hist, cpu>>

NextEncode == \E labels \in DomainNames : EncodeParse(labels)

SpecEncode == Init /\ [][NextEncode]_vars

\* C12: for every domain name made of printable-ASCII labels that fits the
\* name buffer, encoding it as an uncompressed DNS question name and parsing
\* it from offset 12 recovers exactly the dotted name, returns its length,
\* and leaves the cursor just after the terminating zero byte.
C12_EncodeParseRoundTrip ==
  nm.called =>
    /\ nm.res.name = Dotted(nm.labels)
    /\ nm.res.ret = Len(Dotted(nm.labels))
    /\ nm.res.pos = DNS_HLEN + Len(EncodeName(nm.labels))

\* what the code keeps of C12: the name and its length are recovered for every
\* name that fits, and the cursor is right for every name shorter than the
\* buffer's capacity
C12_RoundTripBelowCapacity ==
  nm.called =>
    /\ nm.res.name = Dotted(nm.labels)
    /\ nm.res.ret = Len(Dotted(nm.labels))
    /\ Len(Dotted(nm.labels)) < MAX_DOMAIN_LEN - 1 =>
         nm.res.pos = DNS_HLEN + Len(EncodeName(nm.labels))

\* a name of exactly MAX_DOMAIN_LEN - 1 bytes was parsed and the cursor was
\* left on the terminating zero byte
C12_FullBufferReached ==
  /\ nm.called
  /\ Len(Dotted(nm.labels)) = MAX_DOMAIN_LEN - 1
  /\ nm.res.pos = DNS_HLEN + Len(EncodeName(nm.labels)) - 1
  /\ B(nm.buf, nm.res.pos) = 0

\* ------------------------------------------------------------------------
\* tls_socket_filter on ClientHello messages that carry a server name, with
\* the consumer of tls_events and the clock
\* ------------------------------------------------------------------------
\* host name lengths: short ones, the 63 bytes that fit the sni field with
\* its terminator, and longer ones
HostLens == {1, 11, 63, 64, 70}

\* the host name of n bytes: the letters 'a', 'b', 'c', ... repeated
Host(n) == [i \in 1..n |-> 97 + (i % 26)]

Hosts == {Host(n) : n \in HostLens}

U16Bytes(x) == <<x \div 256, x % 256>>

\* the server_name extension as lines 516-536 read it: type 0, extension
\* length, list length, name type, name length, name
SniExtension(h) ==
  <<0, 0>> \o U16Bytes(Len(h) + 5) \o U16Bytes(Len(h) + 3) \o <<0>> \o U16Bytes(Len(h)) \o h

\* what lines 477-503 walk: an empty session id, one cipher suite, one
\* compression method and the extensions
HelloTail(h) ==
  <<0>> \o <<0, 2, 19, 1>> \o <<1, 0>> \o U16Bytes(Len(SniExtension(h))) \o SniExtension(h)

\* record header and handshake header (type, 24-bit length) around a body
HelloRecord(body) ==
  <<TLS_RECORD_HANDSHAKE, 3, 1>> \o U16Bytes(Len(body) + 4)
    \o <<TLS_HANDSHAKE_CLIENT_HELLO, 0>> \o U16Bytes(Len(body)) \o body

\* a ClientHello as TLS clients send it: between the handshake header and the
\* session id stand the 2-byte client version and the 32-byte random
ClientHello(h) == HelloRecord(<<3, 3>> \o ZeroBytes(32) \o HelloTail(h))

\* a message in which the session id follows the handshake header directly
ClientHelloNoRandom(h) == HelloRecord(HelloTail(h))

SniPackets ==
  {TcpPkt(1, 2, 1000, 443, ClientHello(h)) : h \in Hosts}
    \cup {TcpPkt(1, 2, 1000, 443, ClientHelloNoRandom(h)) : h \in Hosts}

\* the host name a packet of SniPackets carries
HostOf(p) ==
  CHOOSE h \in Hosts : p.payload = ClientHello(h) \/ p.payload = ClientHelloNoRandom(h)

\* the sni field that holds h: h and zero bytes, or the first
\* MAX_SNI_LEN - 1 bytes of h and the terminator
SniField(h) ==
  [i \in 1..MAX_SNI_LEN |-> IF i <= Len(h) /\ i <= MAX_SNI_LEN - 1 THEN h[i] ELSE 0]

NextSni ==
  \/ \E p \in SniPackets, store_ok \in BOOLEAN, g \in Garbage : TlsPacket(p, store_ok, g)
  \/ Consume("tls")
  \/ Tick

SpecSni == Init /\ [][NextSni]_vars

\* the record stored and the event emitted by the last invocation carry h
SniRecorded(h) ==
  /\ tls_handshakes[TlsKey(last.pkt)].sni = SniField(h)
  /\ ~last.event_dropped => tls_events[Len(tls_events)].sni = SniField(h)

\* C13: for a well-formed TLS ClientHello carrying an SNI extension with
\* hostname h, the stored and emitted handshake record's sni field equals h
\* when h is at most 63 bytes long, and equals the first 63 bytes of h
\* followed by a terminator when h is longer.
C13_SniRecorded ==
  (last.prog = "tls_socket_filter" /\ last.why = "client_hello") =>
    SniRecorded(HostOf(last.pkt))

\* what the code keeps of C13: when the session id follows the handshake
\* header directly, the host name is recorded, truncated to 63 bytes
C13_SniRecordedWithoutRandom ==
  (/\ last.prog = "tls_socket_filter" /\ last.why = "client_hello"
   /\ last.pkt.payload = ClientHelloNoRandom(HostOf(last.pkt))) =>
    SniRecorded(HostOf(last.pkt))

\* a ClientHello with a 70-byte host name and no random was stored and emitted
C13_TruncationReached ==
  /\ last.prog = "tls_socket_filter" /\ last.why = "client_hello"
  /\ last.pkt.payload = ClientHelloNoRandom(Host(70))
  /\ ~last.event_dropped

\* a ClientHello as clients send it was stored with an empty sni field
C13_EmptySniReached ==
  /\ last.prog = "tls_socket_filter" /\ last.why = "client_hello"
  /\ last.pkt.payload = ClientHello(Host(11))
  /\ tls_handshakes[TlsKey(last.pkt)].sni = ZeroBytes(MAX_SNI_LEN)

\* ClientHello messages from two clients to two servers: the same host name
\* from different addresses and ports, and different host names
FingerprintPackets ==
  {TcpPkt(src, 2, sp, 443, ClientHelloNoRandom(Host(n))) :
     src \in {1, 3}, sp \in {1000, 2000}, n \in {1, 11}}
    \cup {TcpPkt(3, 4, 2000, 8443, ClientHello(Host(11)))}

\* the record tls_socket_filter stores for p at time t in an empty store
RecordOf(p, t, g) ==
  tls_socket_filter(p, <<>>, tls_stats, TRUE, TRUE, t, g).hs[TlsKey(p)]

SameFingerprintInputs(a, b) ==
  a.version = b.version /\ a.cipher_suite = b.cipher_suite /\ a.sni = b.sni

\* C14: the 128-bit handshake fingerprint is a deterministic function of the
\* record's TLS version, cipher suite and SNI bytes only: two handshakes with
\* the same three inputs get the same fingerprint whatever their addresses,
\* ports, timestamps or the prior contents of the handshake store.
C14_FingerprintOfVersionCipherSni ==
  (last.prog = "tls_socket_filter" /\ last.why = "client_hello") =>
    LET rec == tls_handshakes[TlsKey(last.pkt)]
    IN \A p \in FingerprintPackets, t \in {1, MaxNow}, g \in Garbage :
         LET other == RecordOf(p, t, g)
         IN SameFingerprintInputs(rec, other) => other.ja3_hash = rec.ja3_hash

\* a handshake with a host name was stored, and a handshake from another
\* address and port at another time has the same three inputs
C14_Witness ==
  /\ last.prog = "tls_socket_filter" /\ last.why = "client_hello"
  /\ LET rec == tls_handshakes[TlsKey(last.pkt)]
     IN /\ rec.sni # ZeroBytes(MAX_SNI_LEN)
        /\ \E p \in FingerprintPackets, t \in {1, MaxNow} :
             /\ p.saddr # last.pkt.saddr /\ p.sport # last.pkt.sport
             /\ t # rec.timestamp
             /\ SameFingerprintInputs(rec, RecordOf(p, t, 0))

\* ------------------------------------------------------------------------
\* dhcp_socket_filter on Discover messages that carry a host name and a
\* vendor class, and on messages with a wrong magic cookie, with the consumer
\* of dhcp_events and the clock
\* ------------------------------------------------------------------------
\* "laptop1"
Laptop1 == <<108, 97, 112, 116, 111, 112, 49>>

\* "MSFT 5.0"
Msft50 == <<77, 83, 70, 84, 32, 53, 46, 48>>

HostNames == {<<104>>, Laptop1, Host(63)}

VendorClasses == {<<86>>, Msft50, Host(63)}

\* one option as parse_dhcp_options reads it: code, length, value
Opt(code, value) == <<code, Len(value)>> \o value

\* the options of a Discover: the message type in front of the host name and
\* the vendor class, or behind them
DiscoverOptions(h, v, type_first) ==
  LET mt == Opt(DHCP_OPTION_MESSAGE_TYPE, <<1>>)
      hv == Opt(DHCP_OPTION_HOST_NAME, h) \o Opt(DHCP_OPTION_VENDOR_CLASS, v)
  IN (IF type_first THEN mt \o hv ELSE hv \o mt) \o <<255>>

DhcpMsg(op, cookie, options) ==
  UdpPkt(0, 255, DHCP_CLIENT_PORT, DHCP_SERVER_PORT, DhcpFixed(op, cookie, DHCP_HLEN) \o options)

DiscoverPkt(h, v, type_first) ==
  DhcpMsg(1, DHCP_MAGIC_COOKIE, DiscoverOptions(h, v, type_first))

DiscoverPackets ==
  {DiscoverPkt(h, v, type_first) : h \in HostNames, v \in VendorClasses, type_first \in BOOLEAN}

\* cookies that differ from 0x63825363 in the first, in the last, in every byte
BadCookies == {<<98, 130, 83, 99>>, <<99, 130, 83, 98>>, <<0, 0, 0, 0>>}

\* the four message types the dissector stores, each behind a wrong cookie
BadCookiePackets ==
  {DhcpMsg(1, cookie, Opt(DHCP_OPTION_MESSAGE_TYPE, <<mt>>) \o <<255>>) :
     cookie \in BadCookies, mt \in {1, 2, 3, 5}}

DhcpOptionPackets == DiscoverPackets \cup BadCookiePackets

NextDhcp ==
  \/ \E p \in DhcpOptionPackets, store_ok \in BOOLEAN : DhcpPacket(p, store_ok)
  \/ Consume("dhcp")
  \/ Tick

SpecDhcp == Init /\ [][NextDhcp]_vars

\* C15: for a DHCP Discover (option 53 = 1) whose options carry a hostname
\* (option 12) of n <= 63 bytes and a vendor class (option 60) of m <= 63
\* bytes, the stored and emitted discover record has hostname_len = n and
\* vendor_class_len = m with the corresponding bytes (for "laptop1" and
\* "MSFT 5.0": 7 and 8), and the discover-seen counter increases by exactly 1.
C15_DiscoverHostnameAndVendor ==
  \A h \in HostNames, v \in VendorClasses, type_first \in BOOLEAN, room \in BOOLEAN :
    LET p == DiscoverPkt(h, v, type_first)
        r == dhcp_socket_filter(p, dhcp_store, dhcp_stats, room, TRUE, now)
        rec == r.store["discover"][DhcpKey(p.payload)]
    IN /\ rec.hostname_len = Len(h) /\ rec.hostname = h
       /\ rec.vendor_class_len = Len(v) /\ rec.vendor_class = v
       /\ r.ev.present => r.ev.info = rec
       /\ r.st.discovers = dhcp_stats.discovers + 1

\* what the code keeps of C15: a Discover whose message type comes first is
\* stored, emitted when there is room, and counted exactly once
C15_DiscoverCountedOnce ==
  \A h \in HostNames, v \in VendorClasses, room \in BOOLEAN :
    LET p == DiscoverPkt(h, v, TRUE)
        r == dhcp_socket_filter(p, dhcp_store, dhcp_stats, room, TRUE, now)
    IN /\ DhcpKey(p.payload) \in DOMAIN r.store["discover"]
       /\ r.ev.present = room
       /\ r.st.discovers = dhcp_stats.discovers + 1

\* the Discover of "laptop1" with "MSFT 5.0" was stored with both lengths 255
C15_Length255Reached ==
  /\ last.prog = "dhcp_socket_filter" /\ last.why = "discover"
  /\ last.pkt = DiscoverPkt(Laptop1, Msft50, TRUE)
  /\ dhcp_store["discover"][DhcpKey(last.pkt.payload)].hostname_len = 255
  /\ dhcp_store["discover"][DhcpKey(last.pkt.payload)].vendor_class_len = 255

\* a DHCP message with a full header whose four bytes at offset 236 are not
\* the magic cookie
HasBadCookie(p) ==
  /\ p.udp_len - UDP_HLEN >= DHCP_HLEN /\ Len(p.payload) >= p.udp_len - UDP_HLEN
  /\ <<p.payload[237], p.payload[238], p.payload[239], p.payload[240]>> # <<99, 130, 83, 99>>

\* C16: a DHCP packet with a full 240-byte header whose magic cookie at offset
\* 236 differs from 0x63825363 is counted in the invalid-packet counter
\* exactly once, stores no record in any of the four DHCP message-type
\* stores, emits no event, and is passed.
C16_BadCookieCountedAndIgnored ==
  \A p \in DhcpOptionPackets \cup DhcpPackets, room \in BOOLEAN, store_ok \in BOOLEAN :
    HasBadCookie(p) =>
      LET r == dhcp_socket_filter(p, dhcp_store, dhcp_stats, room, store_ok, now)
      IN /\ r.ret = 0
         /\ r.st = [dhcp_stats EXCEPT !.invalid = @ + 1]
         /\ r.store = dhcp_store
         /\ ~r.ev.present

\* a message whose cookie is wrong in its last byte only was handled while a
\* Discover was on record, and was counted
C16_Witness ==
  /\ last.prog = "dhcp_socket_filter"
  /\ HasBadCookie(last.pkt)
  /\ last.pkt.payload[237] = 99
  /\ last.ret = 0
  /\ dhcp_stats.invalid = 1
  /\ dhcp_store["discover"] # <<>>

\* ------------------------------------------------------------------------
\* parse_dhcp_options on its own: a 240-byte DHCP header followed by every
\* byte string of at most MaxOptBytes bytes over OptBytes, searched from
\* offset 240 for the host name option as at line 270
\* ------------------------------------------------------------------------
MaxOptBytes == 4

\* the host name option code, the lengths 1 and 3, the letter 'h' and the end
\* marker
OptBytes == {DHCP_OPTION_HOST_NAME, 1, 3, 104, 255}

OptParse(body) ==
  LET buf == DhcpFixed(1, DHCP_MAGIC_COOKIE, DHCP_HLEN) \o body
  IN /\ ~nm.called
     /\ nm' = [called |-> TRUE, buf |-> buf,
               res |-> parse_dhcp_options(buf, Len(buf), DHCP_HLEN, DHCP_OPTION_HOST_NAME, 63)]
     /\ UNCHANGED <<now, xdpVars, tcVars, dnsVars, tlsVars, dhcpVars, last, hist, cpu>>

NextOpt == \E body \in SeqsUpTo(OptBytes, MaxOptBytes) : OptParse(body)

SpecOpt == Init /\ [][NextOpt]_vars

\* the first option of the buffer is the host name option and declares more
\* bytes than the payload has left behind its header
FirstOptionOverlong(buf) ==
  /\ Len(buf) >= DHCP_HLEN + 2
  /\ buf[DHCP_HLEN + 1] = 12
  /\ buf[DHCP_HLEN + 2] > Len(buf) - (DHCP_HLEN + 2)

\* C17: when a DHCP option that the dissector is extracting declares a length
\* that exceeds the bytes remaining in the payload, option parsing returns
\* the option truncated to the remaining bytes rather than failing or
\* skipping it.
C17_OverlongOptionTruncated ==
  (nm.called /\ FirstOptionOverlong(nm.buf)) =>
    /\ nm.res.ret = Len(nm.buf) - (DHCP_HLEN + 2)
    /\ nm.res.value = SubSeq(nm.buf, DHCP_HLEN + 3, Len(nm.buf))

\* what the code does instead: the option is skipped and the search fails
C17_OverlongOptionSkipped ==
  (nm.called /\ FirstOptionOverlong(nm.buf)) =>
    nm.res.ret = 0 - 1 /\ nm.res.value = <<>> /\ nm.res.pos > Len(nm.buf)

\* a host name option declaring 3 bytes with 1 byte left was searched
C17_OverlongReached ==
  /\ nm.called
  /\ nm.buf = DhcpFixed(1, DHCP_MAGIC_COOKIE, DHCP_HLEN) \o <<12, 3, 104>>
  /\ nm.res.ret = 0 - 1

\* ------------------------------------------------------------------------
\* The flow tables: xdp_blocklist_prog and the two tc hooks on the packets of
\* two flows, with the control plane that sets verdicts and clears the
\* blocklist, the consumer of the XDP events, the clock, and pauses longer
\* than the flow timeout
\* ------------------------------------------------------------------------
FlowPackets == {TcpPkt(1, 2, 1000, 443, <<>>), TcpPkt(3, 2, 1000, 443, <<>>)}

\* is_expired (include/common.h:336-338) at time t: t > expires_at
Expired(fs, t) ==
  \/ fs.expires_at.sec < t \div NS_PER_SEC
  \/ fs.expires_at.sec = t \div NS_PER_SEC /\ fs.expires_at.ns < t % NS_PER_SEC

\* FLOW_TIMEOUT_NS and one second pass without a packet.  The clock of the
\* model goes on counting from the end of the pause, so the expiry times of
\* the entries move back by the length of the pause; created_at and
\* last_seen, which no program reads, stay as they are.  The pause is taken
\* when no rate limiter time stamp is on record
Pause ==
  /\ ip_blocklist = <<>>
  /\ \E k \in DOMAIN xdp_flow_map : ~Expired(xdp_flow_map[k], now)
  /\ xdp_flow_map' = [k \in DOMAIN xdp_flow_map |->
                        [xdp_flow_map[k] EXCEPT !.expires_at.sec = @ - (FLOW_TIMEOUT_SEC + 1)]]
  /\ last' = [prog |-> "clock"]
  /\ UNCHANGED <<now, ip_blocklist, xdp_stats, dns_bloom, xdp_events, tcVars, dnsVars,
                 tlsVars, dhcpVars, hist, cpu, nm>>

\* control plane: set the verdict of an existing entry of the XDP flow_map
CtlSetXdpVerdict(key, verdict) ==
  /\ key \in DOMAIN xdp_flow_map
  /\ xdp_flow_map[key].verdict # verdict
  /\ xdp_flow_map' = MapPut(xdp_flow_map, key, [xdp_flow_map[key] EXCEPT !.verdict = verdict])
  /\ last' = [prog |-> "control"]
  /\ UNCHANGED <<now, ip_blocklist, xdp_stats, dns_bloom, xdp_events, tcVars, dnsVars,
                 tlsVars, dhcpVars, hist, cpu, nm>>

NextFlow ==
  \/ \E p \in FlowPackets : XdpPacket(p)
  \/ \E p \in FlowPackets : TcIngress(p)
  \/ \E p \in FlowPackets : TcEgress(p)
  \/ \E p \in FlowPackets : CtlUnblock(p.saddr)
  \/ \E p \in FlowPackets, v \in {VERDICT_UNKNOWN, VERDICT_TRUSTED, VERDICT_DROP} :
       CtlSetXdpVerdict(XdpFlowKey(p), v)
  \/ \E v \in {VERDICT_UNKNOWN, VERDICT_TRUSTED, VERDICT_DROP} :
       CtlSetFlow(PacketKey(TrustPkt), v, QOS_PROFILE_DEFAULT)
  \/ XdpConsume
  \/ Pause
  \/ Tick

SpecFlow == Init /\ [][NextFlow]_vars

\* C18: a flow entry whose expires_at is earlier than the current time is
\* treated as absent by the next lookup for its key, so that the packet is
\* handled as the first packet of a new flow, even if the entry has not been
\* physically evicted.
C18_ExpiredEntryTreatedAsAbsent ==
  \A p \in FlowPackets :
    (XdpFlowKey(p) \in DOMAIN xdp_flow_map /\ Expired(xdp_flow_map[XdpFlowKey(p)], now)) =>
      LET with == xdp_blocklist_prog(p, ip_blocklist, xdp_flow_map, xdp_stats, dns_bloom,
                                     TRUE, now)
          without == xdp_blocklist_prog(p, ip_blocklist, MapDelete(xdp_flow_map, XdpFlowKey(p)),
                                        xdp_stats, dns_bloom, TRUE, now)
      IN with.ret = without.ret /\ with.fm = without.fm

\* a packet found the expired entry of its flow and was counted as the
\* second packet of that flow
C18_ExpiredEntryUsedReached ==
  /\ last.prog = "xdp_blocklist_prog" /\ last.why = "flow"
  /\ Expired(xdp_flow_map[XdpFlowKey(last.pkt)], now)
  /\ xdp_flow_map[XdpFlowKey(last.pkt)].packet_count = 2

\* the programs that handle packets against a flow table
PacketProgs == {"xdp_blocklist_prog", "tc_fast_path", "tc_egress_fast_path"}

\* every entry of fm whose verdict is Trusted or Drop is in fm2 with the
\* same verdict
VerdictsKept(fm, fm2) ==
  \A k \in DOMAIN fm :
    fm[k].verdict \in {VERDICT_TRUSTED, VERDICT_DROP} =>
      k \in DOMAIN fm2 /\ fm2[k].verdict = fm[k].verdict

C19_WitnessTc ==
  /\ last.prog = "tc_fast_path"
  /\ PacketKey(last.pkt) \in DOMAIN tc_flow_map
  /\ tc_flow_map[PacketKey(last.pkt)].verdict = VERDICT_TRUSTED
  /\ tc_flow_map[PacketKey(last.pkt)].packet_count > 0

\* the last step was xdp_blocklist_prog creating the entry of its packet's flow
CreatedFlow ==
  /\ last.prog = "xdp_blocklist_prog" /\ last.why = "flow"
  /\ xdp_flow_map[XdpFlowKey(last.pkt)].packet_count = 1

\* C20: a flow entry created by the core on the first-seen packet of a key
\* has verdict Unknown, that is, neither Trusted nor Drop under the verdict
\* encoding used by the verdict engine, so a newly created flow is neither
\* bypassed nor dropped by verdict.
C20_NewFlowVerdictUnknown ==
  CreatedFlow =>
    /\ xdp_flow_map[XdpFlowKey(last.pkt)].verdict = VERDICT_UNKNOWN
    /\ xdp_flow_map[XdpFlowKey(last.pkt)].verdict \notin {VERDICT_TRUSTED, VERDICT_DROP}

\* what the code keeps of C20: xdp_blocklist_prog itself passes the first
\* packet and does not read the new entry's verdict as XDP_DROP
C20_NewFlowPassedByXdp ==
  CreatedFlow =>
    last.ret = XDP_PASS /\ xdp_flow_map[XdpFlowKey(last.pkt)].verdict # XDP_DROP

\* a flow was created with the verdict value that the verdict engine reads
\* as Drop
C20_CreatedAsDropReached ==
  CreatedFlow /\ xdp_flow_map[XdpFlowKey(last.pkt)].verdict = VERDICT_DROP

\* ------------------------------------------------------------------------
\* Flow-key extraction: the two tc hooks and xdp_blocklist_prog on the two
\* directions of a TCP conversation, on a datagram whose source and
\* destination are the same endpoint, and on fragmented, truncated and
\* non-IPv4 frames, with the control plane that creates tc flow entries and
\* clears the rate limiter's time stamps
\* ------------------------------------------------------------------------
KeyIngressPkt == TcPkt(60, ETH_P_IP, IPPROTO_TCP, 1, 2, 1000, 443)

KeyEgressPkt == TcPkt(60, ETH_P_IP, IPPROTO_TCP, 2, 1, 443, 1000)

\* a UDP datagram from 5:53 to 5:53
KeySelfPkt == TcPkt(60, ETH_P_IP, IPPROTO_UDP, 5, 5, DNS_PORT, DNS_PORT)

\* a fragment of a TCP segment of the ingress direction (MF set or offset # 0)
KeyFragmentPkt == [KeyIngressPkt EXCEPT !.frag = TRUE]

\* frames cut inside the Ethernet header, inside the IP header, after 4 bytes
\* of the UDP header and after 10 bytes of the TCP header; an ARP frame
KeyBadPackets ==
  { TcPkt(10, ETH_P_IP, IPPROTO_TCP, 1, 2, 1000, 443),
    TcPkt(30, ETH_P_IP, IPPROTO_TCP, 1, 2, 1000, 443),
    TcPkt(ETH_HLEN + IP_HLEN + 4, ETH_P_IP, IPPROTO_UDP, 1, 2, 1000, 443),
    TcPkt(ETH_HLEN + IP_HLEN + 10, ETH_P_IP, IPPROTO_TCP, 1, 2, 1000, 443),
    TcPkt(60, ETH_P_ARP, IPPROTO_TCP, 1, 2, 1000, 443) }

KeyPackets == {KeyIngressPkt, KeyEgressPkt, KeySelfPkt, KeyFragmentPkt} \cup KeyBadPackets

\* the packet of the other direction of p's conversation
Reverse(p) ==
  [p EXCEPT !.saddr = p.daddr, !.daddr = p.saddr, !.sport = p.dport, !.dport = p.sport]

NextKey ==
  \/ \E p \in KeyPackets : TcIngress(p)
  \/ \E p \in KeyPackets : TcEgress(p)
  \/ \E p \in KeyPackets : XdpPacket(p)
  \/ \E p \in {KeyIngressPkt, KeyEgressPkt, KeySelfPkt}, v \in {VERDICT_UNKNOWN, VERDICT_DROP} :
       CtlSetFlow(PacketKey(p), v, QOS_PROFILE_DEFAULT)
  \/ \E p \in KeyPackets : CtlUnblock(p.saddr)

SpecKey == Init /\ [][NextKey]_vars

\* the entries of fm that the last invocation changed
Touched(fm_before, fm) == {k \in DOMAIN fm_before : fm[k] # fm_before[k]}

\* the egress hook used exactly the entry stored under key k when there was
\* one, and no entry otherwise
EgressUsedOnly(k) ==
  /\ DOMAIN tc_flow_map = DOMAIN last.fm_before
  /\ Touched(last.fm_before, tc_flow_map) = {k} \cap DOMAIN last.fm_before

\* C21: the flow key computed on an egress packet equals the flow key of the
\* matching ingress packet only after swapping its source and destination
\* address and port fields; without the swap the two keys are never equal,
\* and tc_egress_fast_path finds the ingress flow's entry only through the
\* swapped key.
C21_EgressKeyNeedsSwap ==
  (last.prog = "tc_egress_fast_path" /\ extract_flow_key(last.pkt).ok) =>
    LET ke == extract_flow_key(last.pkt).key
        ki == extract_flow_key(Reverse(last.pkt)).key
    IN /\ ki = [src_ip |-> ke.dst_ip, dst_ip |-> ke.src_ip, ip_proto |-> ke.ip_proto,
                src_port |-> ke.dst_port, dst_port |-> ke.src_port, ifindex |-> ke.ifindex]
       /\ ke # ki
       /\ EgressUsedOnly(ki)

\* C21 as the code keeps it: the unswapped key differs from the ingress key
\* whenever the two endpoints of the conversation differ
C21_EgressKeyNeedsSwapBetweenEndpoints ==
  (last.prog = "tc_egress_fast_path" /\ extract_flow_key(last.pkt).ok) =>
    LET ke == extract_flow_key(last.pkt).key
        ki == extract_flow_key(Reverse(last.pkt)).key
    IN /\ ki = [src_ip |-> ke.dst_ip, dst_ip |-> ke.src_ip, ip_proto |-> ke.ip_proto,
                src_port |-> ke.dst_port, dst_port |-> ke.src_port, ifindex |-> ke.ifindex]
       /\ <<last.pkt.saddr, last.pkt.sport>> # <<last.pkt.daddr, last.pkt.dport>> => ke # ki
       /\ EgressUsedOnly(ki)

\* an egress packet found the entry of the ingress direction while an entry
\* under its own, unswapped key was on record and stayed untouched
C21_Witness ==
  /\ last.prog = "tc_egress_fast_path"
  /\ last.pkt = KeyEgressPkt
  /\ PacketKey(KeyIngressPkt) \in DOMAIN last.fm_before
  /\ PacketKey(KeyEgressPkt) \in DOMAIN last.fm_before
  /\ tc_flow_map[PacketKey(KeyIngressPkt)].packet_count = 1
  /\ tc_flow_map[PacketKey(KeyEgressPkt)].packet_count = 0

\* an egress datagram whose two endpoints are the same found its entry
C21_SelfAddressedReached ==
  /\ last.prog = "tc_egress_fast_path"
  /\ last.pkt = KeySelfPkt
  /\ PacketKey(KeySelfPkt) \in DOMAIN tc_flow_map
  /\ tc_flow_map[PacketKey(KeySelfPkt)].packet_count = 1

\* the frame ends inside the Ethernet header, the IP header, or the TCP or
\* UDP header that follows the IP header
TruncatedHeaders(p) ==
  \/ p.frame_len < ETH_HLEN
  \/ p.eth_proto = ETH_P_IP /\ p.frame_len < ETH_HLEN + IP_HLEN
  \/ p.eth_proto = ETH_P_IP /\ p.protocol = IPPROTO_TCP
       /\ p.frame_len < ETH_HLEN + p.ihl * 4 + TCP_HLEN
  \/ p.eth_proto = ETH_P_IP /\ p.protocol = IPPROTO_UDP
       /\ p.frame_len < ETH_HLEN + p.ihl * 4 + UDP_HLEN

\* no key is extracted from p and no hook touches a flow entry for it
NoKeyNoEntryTouched(p) ==
  /\ ~extract_flow_key(p).ok
  /\ tc_fast_path(p, tc_flow_map, qos_profiles, tc_stats, now).fm = tc_flow_map
  /\ tc_egress_fast_path(p, tc_flow_map, tc_stats).fm = tc_flow_map
  /\ xdp_blocklist_prog(p, ip_blocklist, xdp_flow_map, xdp_stats, dns_bloom, TRUE, now).fm
       = xdp_flow_map

\* C22: flow-key extraction fails, producing no key and touching no flow
\* entry, for every non-IPv4 packet, every fragmented IPv4 packet (fragment
\* offset or fragment flags nonzero) and every packet whose Ethernet, IP or
\* TCP/UDP header is truncated.
C22_NoKeyForUnsupportedPackets ==
  \A p \in KeyPackets :
    (p.eth_proto # ETH_P_IP \/ p.frag \/ TruncatedHeaders(p)) => NoKeyNoEntryTouched(p)

\* what the code keeps of C22: extract_flow_key fails and the tc hooks touch
\* no entry for non-IPv4 frames and truncated headers; xdp_blocklist_prog
\* touches no entry for non-IPv4 frames, fragments, and frames cut before
\* the eighth byte of the transport header
C22_NoKeyForNonIpAndTruncated ==
  \A p \in KeyPackets :
    /\ (p.eth_proto # ETH_P_IP \/ TruncatedHeaders(p)) =>
         /\ ~extract_flow_key(p).ok
         /\ tc_fast_path(p, tc_flow_map, qos_profiles, tc_stats, now).fm = tc_flow_map
         /\ tc_egress_fast_path(p, tc_flow_map, tc_stats).fm = tc_flow_map
    /\ (p.eth_proto # ETH_P_IP \/ p.frag \/ p.frame_len < ETH_HLEN + IP_HLEN + UDP_HLEN) =>
         xdp_blocklist_prog(p, ip_blocklist, xdp_flow_map, xdp_stats, dns_bloom, TRUE, now).fm
           = xdp_flow_map

\* tc_fast_path counted a fragment on the flow entry of its addresses and ports
C22_FragmentCountedReached ==
  /\ last.prog = "tc_fast_path"
  /\ last.pkt.frag
  /\ PacketKey(last.pkt) \in DOMAIN last.fm_before
  /\ tc_flow_map[PacketKey(last.pkt)].packet_count
       = last.fm_before[PacketKey(last.pkt)].packet_count + 1

\* xdp_blocklist_prog created a flow entry for a TCP segment cut after 10
\* bytes of its header
C22_ShortTcpHeaderFlowReached ==
  /\ last.prog = "xdp_blocklist_prog" /\ last.why = "flow"
  /\ last.pkt.protocol = IPPROTO_TCP
  /\ TruncatedHeaders(last.pkt)
  /\ XdpFlowKey(last.pkt) \in DOMAIN xdp_flow_map

\* every program that runs on a packet
AllPacketProgs ==
  PacketProgs \cup {"dns_socket_filter", "tls_socket_filter", "dhcp_socket_filter"}

\* C23: packet processing never inserts, updates or deletes entries of the
\* externally populated policy tables: after any sequence of packets the
\* contents of the IP blocklist, the domain bloom filter and the QoS profile
\* table equal what the control plane wrote.
C23_PolicyTablesReadOnly ==
  [][last'.prog \in AllPacketProgs =>
       /\ ip_blocklist' = ip_blocklist
       /\ dns_bloom' = dns_bloom
       /\ qos_profiles' = qos_profiles]_vars

\* what the code keeps of C23: no packet changes the domain filter or the QoS
\* profile table, and no packet removes an address from the blocklist
C23_BloomAndQosReadOnly ==
  [][last'.prog \in AllPacketProgs =>
       /\ dns_bloom' = dns_bloom
       /\ qos_profiles' = qos_profiles
       /\ DOMAIN ip_blocklist \subseteq DOMAIN ip_blocklist']_vars

\* the blocklist holds an address that only a packet put there, and the next
\* packet from that address was dropped as blocked
C23_PacketBlockedItsSourceReached ==
  /\ last.prog = "xdp_blocklist_prog" /\ last.why = "blocked"
  /\ last.pkt.saddr \notin BlockableIps
  /\ last.pkt.saddr \in DOMAIN ip_blocklist

\* ------------------------------------------------------------------------
\* The per-flow counters under parallel invocations.  Two CPUs run
\* xdp_blocklist_prog and the tc hooks on packets of one flow.  One step is
\* one access to shared memory: a map lookup or update, an atomic
\* fetch-and-add, and, for the plain C statements packet_count++ and
\* byte_count += packet_len, the load and the store of the read-modify-write.
\* hist.counted tallies, per hook, the invocations that went through the
\* counting code and the lengths they added
\* ------------------------------------------------------------------------
CountPackets ==
  { Pkt(60, ETH_P_IP, IPPROTO_TCP, 1, 2, 1000, 443, <<>>),
    Pkt(80, ETH_P_IP, IPPROTO_TCP, 1, 2, 1000, 443, <<>>) }

CountKey == PacketKey(Pkt(60, ETH_P_IP, IPPROTO_TCP, 1, 2, 1000, 443, <<>>))

CountXdpKey == XdpFlowKey(Pkt(60, ETH_P_IP, IPPROTO_TCP, 1, 2, 1000, 443, <<>>))

CpuAt(c, pc) == [cpu EXCEPT ![c] = [pc |-> pc, pkt |-> cpu[c].pkt]]

Tally(h, len) ==
  [hist EXCEPT !.counted[h] = [n |-> @.n + 1, bytes |-> @.bytes + len]]

\* line 157 of get_or_create_flow: the first lookup
CountFlowLookup(c) ==
  /\ cpu[c].pc = "flow_lookup"
  /\ cpu' = CpuAt(c, IF XdpFlowKey(cpu[c].pkt) \in DOMAIN xdp_flow_map
                       THEN "load_packets" ELSE "flow_insert")
  /\ last' = [prog |-> "xdp_step", cpu |-> c]
  /\ UNCHANGED <<now, xdpVars, tcVars, dnsVars, tlsVars, dhcpVars, hist, nm>>

\* lines 162-176 of get_or_create_flow, and lines 309-311 when it returned NULL
CountFlowInsert(c) ==
  /\ cpu[c].pc = "flow_insert"
  /\ LET g == flow_insert(xdp_flow_map, XdpFlowKey(cpu[c].pkt), now)
     IN /\ xdp_flow_map' = g.fm
        /\ cpu' = IF g.found THEN CpuAt(c, "load_packets")
                  ELSE CpuDone(c, XDP_PASS, TRUE, "null")
  /\ last' = [prog |-> "xdp_step", cpu |-> c]
  /\ UNCHANGED <<now, ip_blocklist, xdp_stats, dns_bloom, xdp_events, tcVars, dnsVars,
                 tlsVars, dhcpVars, hist, nm>>

\* line 317, flow_state->packet_count++, and line 318, flow_state->byte_count
\* += packet_len: the load of the field into a register
CountLoad(c, at, field, next) ==
  /\ cpu[c].pc = at
  /\ cpu' = [cpu EXCEPT ![c] = [pc |-> next, pkt |-> cpu[c].pkt,
                                 reg |-> xdp_flow_map[XdpFlowKey(cpu[c].pkt)][field]]]
  /\ last' = [prog |-> "xdp_step", cpu |-> c]
  /\ UNCHANGED <<now, xdpVars, tcVars, dnsVars, tlsVars, dhcpVars, hist, nm>>

\* a variant of the store in which the addition is done on the value the
\* field has at the time of the store
CountStored_Atomic(current, reg, add) == current + add

\* the value written back by the store of the read-modify-write: the register
\* loaded before, plus the addend
CountStored(current, reg, add) == reg + add

\* lines 317 and 318: the store of the register plus the addend
CountStore(c, at, field, add, next) ==
  LET key == XdpFlowKey(cpu[c].pkt)
  IN /\ cpu[c].pc = at
     /\ xdp_flow_map' = [xdp_flow_map EXCEPT
                           ![key][field] = CountStored(@, cpu[c].reg, add)]
     /\ cpu' = CpuAt(c, next)
     /\ last' = [prog |-> "xdp_step", cpu |-> c]
     /\ UNCHANGED <<now, ip_blocklist, xdp_stats, dns_bloom, xdp_events, tcVars, dnsVars,
                    tlsVars, dhcpVars, hist, nm>>

\* lines 319-335: last_seen, the offload flag, the verdict and the statistics
CountTail(c) ==
  LET p == cpu[c].pkt
      key == XdpFlowKey(p)
      fs == xdp_flow_map[key]
      offload == fs.packet_count > TRUST_PACKET_THRESHOLD /\ (fs.flags % 2) = 0
      st2 == IF offload THEN [xdp_stats EXCEPT !.flows_offloaded = @ + 1] ELSE xdp_stats
      drop == fs.verdict = XDP_DROP
  IN /\ cpu[c].pc = "tail"
     /\ xdp_flow_map' = [xdp_flow_map EXCEPT
                           ![key] = [fs EXCEPT !.last_seen = now,
                                               !.flags = IF offload THEN @ + TRUSTED_FLOW_FLAG
                                                         ELSE @]]
     /\ xdp_stats' = update_statistics(st2, 1, p.tot_len, IF drop THEN 1 ELSE 0)
     /\ cpu' = CpuDone(c, IF drop THEN XDP_DROP ELSE XDP_PASS, FALSE, "state")
     /\ hist' = Tally("xdp", p.tot_len)
     /\ last' = [prog |-> "xdp_step", cpu |-> c]
     /\ UNCHANGED <<now, ip_blocklist, dns_bloom, xdp_events, tcVars, dnsVars, tlsVars,
                    dhcpVars, nm>>

\* tc_fast_path lines 146-163 and tc_egress_fast_path lines 204-225: the key
\* and the lookup
CountTcStart(c, p, egress) ==
  LET k == extract_flow_key(p)
      key == IF egress THEN SwapKey(k.key) ELSE k.key
  IN /\ cpu[c].pc = "idle"
     /\ hist.npkts < MaxRacePackets
     /\ k.ok
     /\ hist' = [hist EXCEPT !.npkts = @ + 1]
     /\ IF key \in DOMAIN tc_flow_map
          THEN /\ cpu' = [cpu EXCEPT ![c] = [pc |-> "tc_add_packets", pkt |-> p, key |-> key,
                                              egress |-> egress]]
               /\ UNCHANGED tc_stats
          ELSE /\ cpu' = [cpu EXCEPT ![c] = [pc |-> "done", pkt |-> p, ret |-> TC_ACT_OK,
                                              missed |-> TRUE, flow |-> "none"]]
               /\ tc_stats' = IF egress THEN tc_stats
                              ELSE update_stats(tc_stats, 1, p.len, 0, 1, 0)
     /\ last' = [prog |-> "tc_step", cpu |-> c]
     /\ UNCHANGED <<now, xdpVars, tc_flow_map, qos_profiles, dnsVars, tlsVars, dhcpVars, nm>>

\* lines 166-167 and 228-229: __sync_fetch_and_add on one field of the entry
CountTcAdd(c, at, field, add, next) ==
  /\ cpu[c].pc = at
  /\ tc_flow_map' = [tc_flow_map EXCEPT ![cpu[c].key][field] = @ + add]
  /\ cpu' = [cpu EXCEPT ![c].pc = next]
  /\ last' = [prog |-> "tc_step", cpu |-> c]
  /\ UNCHANGED <<now, xdpVars, qos_profiles, tc_stats, dnsVars, tlsVars, dhcpVars, hist, nm>>

\* lines 168-197 and 231-239: last_seen (ingress), the verdict, the statistics
CountTcVerdict(c) ==
  LET p == cpu[c].pkt
      key == cpu[c].key
      state == tc_flow_map[key]
      r == IF cpu[c].egress
             THEN tc_egress_fast_path(p, tc_flow_map, tc_stats)
             ELSE TcIngressVerdict(p, state, tc_flow_map, qos_profiles, tc_stats)
  IN /\ cpu[c].pc = "tc_verdict"
     /\ tc_flow_map' = IF cpu[c].egress THEN tc_flow_map
                       ELSE [tc_flow_map EXCEPT ![key].last_seen = @ + now]
     /\ tc_stats' = r.st
     /\ cpu' = [cpu EXCEPT ![c] = [pc |-> "done", pkt |-> p, ret |-> r.ret,
                                    missed |-> FALSE, flow |-> "state"]]
     /\ hist' = Tally("tc", p.len)
     /\ last' = [prog |-> "tc_step", cpu |-> c]
     /\ UNCHANGED <<now, xdpVars, qos_profiles, dnsVars, tlsVars, dhcpVars, nm>>

NextCount ==
  \/ \E c \in CPUs, p \in CountPackets : RaceStart(c, p)
  \/ \E c \in CPUs : RaceRateLookup(c)
  \/ \E c \in CPUs : RaceRateUpdate(c)
  \/ \E c \in CPUs : CountFlowLookup(c)
  \/ \E c \in CPUs : CountFlowInsert(c)
  \/ \E c \in CPUs : CountLoad(c, "load_packets", "packet_count", "store_packets")
  \/ \E c \in CPUs : CountStore(c, "store_packets", "packet_count", 1, "load_bytes")
  \/ \E c \in CPUs : CountLoad(c, "load_bytes", "byte_count", "store_bytes")
  \/ \E c \in CPUs : CountStore(c, "store_bytes", "byte_count", cpu[c].pkt.tot_len, "tail")
  \/ \E c \in CPUs : CountTail(c)
  \/ \E c \in CPUs, p \in CountPackets : CountTcStart(c, p, FALSE)
  \/ \E c \in CPUs, p \in CountPackets : CountTcStart(c, Reverse(p), TRUE)
  \/ \E c \in CPUs : CountTcAdd(c, "tc_add_packets", "packet_count", 1, "tc_add_bytes")
  \/ \E c \in CPUs : CountTcAdd(c, "tc_add_bytes", "byte_count", cpu[c].pkt.len, "tc_verdict")
  \/ \E c \in CPUs : CountTcVerdict(c)
  \/ \E c \in CPUs : RaceFinish(c)
  \/ CtlUnblock(1)
  \/ /\ CountKey \notin DOMAIN tc_flow_map
     /\ CtlSetFlow(CountKey, VERDICT_UNKNOWN, QOS_PROFILE_DEFAULT)

SpecCount == Init /\ [][NextCount]_vars

\* no invocation is between its lookup and its return
Quiescent == \A c \in CPUs : cpu[c].pc \in {"idle", "done"}

\* the counters of the flow's entry in fm, zero when there is no entry
CountersOf(fm, key) ==
  IF key \in DOMAIN fm THEN [n |-> fm[key].packet_count, bytes |-> fm[key].byte_count]
  ELSE [n |-> 0, bytes |-> 0]

\* C24: updates to per-flow counters are atomic increments: when N
\* invocations process packets of the same existing flow in parallel, the
\* flow's packet_count increases by exactly N and its byte_count by the sum
\* of the packet lengths, with no lost update, in every hook that counts
\* packets.
C24_NoLostCounterUpdate ==
  Quiescent =>
    /\ CountersOf(xdp_flow_map, CountXdpKey) = hist.counted["xdp"]
    /\ CountersOf(tc_flow_map, CountKey) = hist.counted["tc"]

\* what the code keeps of C24: the two tc hooks lose no update
C24_NoLostCounterUpdateInTc ==
  Quiescent => CountersOf(tc_flow_map, CountKey) = hist.counted["tc"]

\* an invocation of each tc hook is between its two atomic additions on the
\* same entry, and both additions to packet_count are in the entry
C24_TcParallelReached ==
  /\ \A c \in CPUs : cpu[c].pc = "tc_add_bytes"
  /\ cpu[1].egress # cpu[2].egress
  /\ tc_flow_map[CountKey].packet_count = hist.counted["tc"].n + 2

\* two invocations of xdp_blocklist_prog went through the counting code of an
\* existing flow and its packet_count went up by one
C24_XdpLostUpdateReached ==
  /\ Quiescent
  /\ hist.counted["xdp"].n = 3
  /\ CountXdpKey \in DOMAIN xdp_flow_map
  /\ xdp_flow_map[CountXdpKey].packet_count = 2

\* ------------------------------------------------------------------------
\* The statistics of all five programs: xdp_blocklist_prog, the two tc
\* hooks and the three socket filters on their packets, with the consumers,
\* the clock and the control plane
\* ------------------------------------------------------------------------
NextStats ==
  \/ \E p \in XdpPackets : XdpPacket(p)
  \/ \E p \in DnsPackets, store_ok \in BOOLEAN : DnsPacket(p, store_ok, 0)
  \/ \E p \in TlsPackets, store_ok \in BOOLEAN : TlsPacket(p, store_ok, 0)
  \/ \E p \in DhcpPackets, store_ok \in BOOLEAN : DhcpPacket(p, store_ok)
  \/ \E p \in TcPackets : TcIngress(p)
  \/ \E p \in TcPackets : TcEgress(p)
  \/ \E e \in Emitters : Consume(e)
  \/ Tick
  \/ \E ip \in BlockableIps : CtlBlock(ip)
  \/ \E domain \in BlockableDomains : CtlBlockDomain(domain)
  \/ \E v \in {VERDICT_TRUSTED, VERDICT_DROP} :
       CtlSetFlow(PacketKey(TrustPkt), v, QOS_PROFILE_DEFAULT)

SpecStats == Init /\ [][NextStats]_vars

\* every counter of the array or struct a is at most its value in b
CountersLeq(a, b) == \A f \in DOMAIN a : a[f] <= b[f]

\* C25: every statistics counter (DNS, TLS and DHCP stat arrays, XDP
\* statistics, TC statistics) is non-decreasing over any sequence of
\* processed packets: no packet-processing step decrements or resets a
\* counter.
C25_CountersNeverDecrease ==
  [][/\ CountersLeq(dns_stats, dns_stats')
     /\ CountersLeq(tls_stats, tls_stats')
     /\ CountersLeq(dhcp_stats, dhcp_stats')
     /\ CountersLeq(xdp_stats, xdp_stats')
     /\ CountersLeq(tc_stats, tc_stats')]_vars

\* a packet was dropped by the XDP hook after another packet had been counted
\* as passed, and both counts are on record
C25_Witness ==
  /\ last.prog = "xdp_blocklist_prog" /\ last.ret = XDP_DROP
  /\ xdp_stats.packets_passed = 1
  /\ xdp_stats.packets_dropped = 1
  /\ xdp_stats.packets_processed = 2

\* a socket filter counted an error after the tc hook had dropped a packet
C25_WitnessOtherPrograms ==
  /\ last.prog = "dns_socket_filter"
  /\ dns_stats.errors = 1
  /\ tc_stats.packets_dropped = 1

\* C26: every packet that a dissector abandons because its buffer is shorter
\* than the header the dissector requires is passed and increments that
\* dissector's error counter by one.
C26_TruncatedCountedAsError ==
  /\ \A p \in DnsPackets, room \in BOOLEAN, store_ok \in BOOLEAN, g \in Garbage :
       PayloadBytes(p) < DNS_HLEN =>
         LET r == dns_socket_filter(p, dns_queries, dns_responses, dns_stats, room, store_ok, now, g)
         IN r.ret = 0 /\ r.st = [dns_stats EXCEPT !.errors = @ + 1]
  /\ \A p \in DhcpPackets, room \in BOOLEAN, store_ok \in BOOLEAN :
       PayloadBytes(p) < DHCP_HLEN =>
         LET r == dhcp_socket_filter(p, dhcp_store, dhcp_stats, room, store_ok, now)
         IN r.ret = 0 /\ r.st = [dhcp_stats EXCEPT !.errors = @ + 1]
  /\ \A p \in TlsPackets, room \in BOOLEAN, store_ok \in BOOLEAN, g \in Garbage :
       PayloadBytes(p) < 5 + 4 =>
         LET r == tls_socket_filter(p, tls_handshakes, tls_stats, room, store_ok, now, g)
         IN r.ret = 0 /\ r.st = [tls_stats EXCEPT !.errors = @ + 1]

\* what the code does: the packet is passed and no counter moves
C26_TruncatedPassedUncounted ==
  /\ \A p \in DnsPackets, room \in BOOLEAN, store_ok \in BOOLEAN, g \in Garbage :
       PayloadBytes(p) < DNS_HLEN =>
         LET r == dns_socket_filter(p, dns_queries, dns_responses, dns_stats, room, store_ok, now, g)
         IN r.ret = 0 /\ r.st = dns_stats
  /\ \A p \in DhcpPackets, room \in BOOLEAN, store_ok \in BOOLEAN :
       PayloadBytes(p) < DHCP_HLEN =>
         LET r == dhcp_socket_filter(p, dhcp_store, dhcp_stats, room, store_ok, now)
         IN r.ret = 0 /\ r.st = dhcp_stats
  /\ \A p \in TlsPackets, room \in BOOLEAN, store_ok \in BOOLEAN, g \in Garbage :
       PayloadBytes(p) < 5 + 4 =>
         LET r == tls_socket_filter(p, tls_handshakes, tls_stats, room, store_ok, now, g)
         IN r.ret = 0 /\ r.st = tls_stats

\* two truncated packets were handled, the last one by the DNS dissector, and
\* no error was counted by any dissector
C26_TruncatedUncountedReached ==
  /\ last.prog = "dns_socket_filter" /\ last.why = "short_dns"
  /\ PayloadBytes(last.pkt) < DNS_HLEN
  /\ hist.npkts = 2
  /\ dns_stats.errors = 0 /\ tls_stats.errors = 0 /\ dhcp_stats.errors = 0

\* ------------------------------------------------------------------------
\* The domain filter: xdp_blocklist_prog on DNS queries for names of several
\* lengths, with the control plane that sets the bit of a name in dns_bloom
\* and clears the rate limiter's time stamps, and the consumer of the events
\* ------------------------------------------------------------------------
\* a label of n bytes of the character c
Fill(n, c) == [i \in 1..n |-> c]

\* "a", "ab.c", a name of one 51-byte label, one of a 55-byte label, and
\* 30 bytes '.' 30 bytes
BloomNames ==
  { <<Fill(1, 97)>>, <<Fill(2, 97), Fill(1, 99)>>, <<Fill(51, 97)>>, <<Fill(55, 97)>>,
    <<Fill(30, 97), Fill(30, 98)>> }

\* the query for a name: header with QR clear and one question, the name,
\* type A, class IN
BloomQuery(labels) ==
  UdpPkt(1, 2, 1000, DNS_PORT, DnsHeader(7, 0, 1, 0) \o EncodeName(labels) \o <<0, 1, 0, 1>>)

BloomQueries == {BloomQuery(labels) : labels \in BloomNames}

\* the name a query of BloomQueries asks for
NameOf(p) == CHOOSE labels \in BloomNames : p = BloomQuery(labels)

\* the base-31 polynomial hash of the bytes of a name, continued from h,
\* modulo 2^32 and kept as two 16-bit halves
RECURSIVE PolyHash31(_, _)
PolyHash31(bytes, h) ==
  IF bytes = <<>> \/ h.lo < 0 THEN h
  ELSE LET t == h.lo * 31 + Head(bytes)
       IN PolyHash31(Tail(bytes),
                     [lo |-> t % 65536, hi |-> (h.hi * 31 + (t \div 65536)) % 65536])

\* the bit of the packed bitset derived from a name: bit (hash mod 2^20)
DerivedBit(bytes) ==
  LET h == PolyHash31(bytes, [lo |-> 0, hi |-> 0])
  IN ((h.hi % 16) * 65536 + h.lo) % BLOOM_BITS

\* bit n of the packed bitset is set
BitSet(bloom, n) ==
  (n \div 8) \in DOMAIN bloom /\ (bloom[n \div 8] \div (2 ^ (n % 8))) % 2 = 1

NextBloom ==
  \/ \E p \in BloomQueries : XdpPacket(p)
  \/ \E labels \in BloomNames : CtlBlockDomain(Dotted(labels))
  \/ CtlUnblock(1)
  \/ XdpConsume

SpecBloom == Init /\ [][NextBloom]_vars

\* the last step was xdp_blocklist_prog on a query that the blocklist and the
\* rate limiter let through to the domain test
QueryTested ==
  /\ last.prog = "xdp_blocklist_prog"
  /\ last.pkt \in BloomQueries
  /\ last.why \notin {"blocked", "rate"}

\* C27: the domain membership test hashes the domain bytes with the base-31
\* polynomial hash (32-bit wrap-around) and checks exactly one derived bit of
\* the packed bitset: a DNS query for a domain whose derived bit was set by
\* the control plane is always dropped (never a false negative), and a query
\* whose derived bit is clear is never dropped as domain-blocked.
C27_DomainBitDecides ==
  QueryTested =>
    LET set == BitSet(dns_bloom, DerivedBit(Dotted(NameOf(last.pkt))))
    IN /\ set => last.ret = XDP_DROP
       /\ ~set => last.why # "domain"

\* what the code keeps of C27: the bit decides for every name of at most 51
\* bytes, the longest that the name extraction of the XDP hook copies whole
C27_DomainBitDecidesShortNames ==
  (QueryTested /\ Len(Dotted(NameOf(last.pkt))) <= 51) =>
    LET set == BitSet(dns_bloom, DerivedBit(Dotted(NameOf(last.pkt))))
    IN /\ set => last.ret = XDP_DROP /\ last.why = "domain"
       /\ ~set => last.why # "domain"

\* what the code tests: the derived bit of the bytes XdpDomain extracted
C27_ExtractedBitDecides ==
  QueryTested =>
    (last.why = "domain" <=>
       BitSet(dns_bloom, DerivedBit(XdpDomain(last.pkt.payload, DNS_HLEN, <<>>))))

\* a query for the 51-byte name was dropped by its bit
C27_ShortNameDroppedReached ==
  /\ QueryTested /\ last.why = "domain"
  /\ NameOf(last.pkt) = <<Fill(51, 97)>>
  /\ BitSet(dns_bloom, DerivedBit(Fill(51, 97)))

\* a query for the 55-byte name passed although the control plane had set
\* the name's bit
C27_FalseNegativeReached ==
  /\ QueryTested /\ last.ret = XDP_PASS
  /\ NameOf(last.pkt) = <<Fill(55, 97)>>
  /\ BitSet(dns_bloom, DerivedBit(Fill(55, 97)))

\* a query for the 55-byte name, whose bit is clear, was dropped as
\* domain-blocked by the bit of the 51-byte name
C27_WrongNameDroppedReached ==
  /\ QueryTested /\ last.why = "domain"
  /\ NameOf(last.pkt) = <<Fill(55, 97)>>
  /\ ~BitSet(dns_bloom, DerivedBit(Fill(55, 97)))

\* ------------------------------------------------------------------------
\* The offsets tls_socket_filter and parse_tls_sni read, on ClientHello
\* messages cut at every length, with length fields that point behind the
\* packet and with IP and TCP headers that carry options
\* ------------------------------------------------------------------------
\* the payload offsets the extension walk reads (lines 506-544), from pos
RECURSIVE SniExtensionReads(_, _, _, _, _)
SniExtensionReads(data, data_len, pos, extensions_end, g) ==
  IF ~(pos + 4 <= extensions_end /\ pos < data_len) THEN {}
  ELSE LET ext_type == Rd16(data, pos, g)
           ext_len == Rd16(data, pos + 2, g)
           body == pos + 4
           sni_pos == body + 5
           declared == Rd16(data, sni_pos - 2, g)
           sni_len == IF declared >= MAX_SNI_LEN THEN MAX_SNI_LEN - 1 ELSE declared
           copied == Max(Min(sni_len, data_len - sni_pos), 0)
       IN (pos..(pos + 3)) \cup
          (IF body + ext_len > data_len THEN {}
           ELSE IF ext_type = 0
             THEN IF body + 2 > data_len \/ body + 5 > data_len THEN {}
                  ELSE {sni_pos - 2, sni_pos - 1} \cup (sni_pos..(sni_pos + copied - 1))
           ELSE SniExtensionReads(data, data_len, body + ext_len, extensions_end, g))

\* the payload offsets parse_tls_sni reads (lines 468-547)
SniReads(data, data_len, g) ==
  IF data_len < 9 \/ 9 + 1 >= data_len THEN {}
  ELSE LET pos1 == 9 + 1 + B(data, 9)
       IN {9} \cup
          (IF pos1 + 2 >= data_len THEN {}
           ELSE LET pos2 == pos1 + 2 + U16(data, pos1)
                IN {pos1, pos1 + 1} \cup
                   (IF pos2 + 1 >= data_len THEN {}
                    ELSE LET pos3 == pos2 + 1 + B(data, pos2)
                         IN {pos2} \cup
                            (IF pos3 + 2 >= data_len THEN {}
                             ELSE {pos3, pos3 + 1} \cup
                                  SniExtensionReads(data, data_len, pos3 + 2,
                                                    pos3 + 2 + U16(data, pos3), g))))

\* the offset of the TCP header as line 110 computes it
TlsL4(p) == ETH_HLEN + p.ihl * 4

\* the offset of the payload as line 118 computes it
TlsPayloadAt(p) == TlsL4(p) + p.doff * 4

\* the frame offsets tls_socket_filter reads on a packet (lines 99-155):
\* h_proto, ihl and protocol, the data offset of the TCP header, the record
\* header, the handshake type, addresses and ports, and what parse_tls_sni
\* reads of the payload
TlsReads(p, g) ==
  LET pay == TlsPayloadAt(p)
  IN IF p.len < ETH_HLEN + IP_HLEN + TCP_HLEN THEN {}
     ELSE {12, 13, ETH_HLEN, ETH_HLEN + 9} \cup
       (IF p.eth_proto # ETH_P_IP \/ p.protocol # IPPROTO_TCP THEN {}
        ELSE {TlsL4(p) + 12} \cup
          (IF TlsAvail(p) < 5 THEN {}
           ELSE (pay..(pay + 4)) \cup
             (IF B(p.payload, 0) # TLS_RECORD_HANDSHAKE \/ TlsShortHandshake(p) THEN {}
              ELSE {pay + 5} \cup
                (IF B(p.payload, 5) # TLS_HANDSHAKE_CLIENT_HELLO THEN {}
                 ELSE ((ETH_HLEN + 12)..(ETH_HLEN + 19)) \cup (TlsL4(p)..(TlsL4(p) + 3))
                        \cup {pay + o : o \in SniReads(p.payload, TlsAvail(p), g)}))))

\* a TCP segment whose IP header has ihl words and whose TCP header has doff
\* words, in a frame that holds both headers and the payload
TcpOptPkt(ihl, doff, payload) ==
  [TcpPkt(1, 2, 1000, 443, payload) EXCEPT
     !.ihl = ihl, !.doff = doff,
     !.len = ETH_HLEN + ihl * 4 + doff * 4 + Len(payload),
     !.frame_len = ETH_HLEN + ihl * 4 + doff * 4 + Len(payload),
     !.tot_len = ihl * 4 + doff * 4 + Len(payload)]

\* a frame of 54 bytes whose IP header announces ihl words
TcpShortOptPkt(ihl) == [TcpPkt(1, 2, 1000, 443, <<>>) EXCEPT !.ihl = ihl]

\* a ClientHello with empty session id, cipher suites and compression
\* methods whose extensions length announces 100 bytes where n remain
HelloLongExtensions(n) ==
  <<TLS_RECORD_HANDSHAKE, 3, 1, 0, 20, TLS_HANDSHAKE_CLIENT_HELLO, 0, 0, 16>>
    \o <<0>> \o <<0, 0>> \o <<0>> \o <<0, 100>> \o ZeroBytes(n)

\* the ClientHello for "a" with the session id length, the cipher suites
\* length, an extension type or length or the name length replaced by v
HelloWithField(at, v) == [ClientHelloBytes EXCEPT ![at + 1] = v]

HelloCutLens == 0..Len(ClientHelloBytes)

HelloFieldValues == {1, 6, 200}

HelloPackets ==
  {TcpPkt(1, 2, 1000, 443, SubSeq(ClientHelloBytes, 1, n)) : n \in HelloCutLens}
    \cup {TcpOptPkt(ihl, doff, ClientHelloBytes) : ihl \in {6, 15}, doff \in {5, 8}}
    \cup {TcpShortOptPkt(ihl) : ihl \in {6, 15}}
    \cup {TcpPkt(1, 2, 1000, 443, HelloLongExtensions(n)) : n \in 1..5}
    \cup {TcpPkt(1, 2, 1000, 443, HelloWithField(at, v)) :
            at \in {9, 11, 12, 14, 16, 18, 23}, v \in HelloFieldValues}

NextHello ==
  \/ \E p \in HelloPackets, store_ok \in BOOLEAN, g \in Garbage : TlsPacket(p, store_ok, g)
  \/ Consume("tls")
  \/ Tick

SpecHello == Init /\ [][NextHello]_vars

\* the offsets at or behind the end of the frame that the last invocation
\* read, for some byte behind the packet
ReadsOutside ==
  IF last.prog # "tls_socket_filter" THEN {}
  ELSE UNION {{o \in TlsReads(last.pkt, g) : o >= last.pkt.frame_len} : g \in Garbage}

\* C28: while locating and walking a ClientHello (TCP header, record and
\* handshake headers, session id, cipher suites, compression methods,
\* extension headers, SNI), the TLS dissector never reads a byte at an offset
\* at or beyond the end of the validated packet buffer, for any values of the
\* declared length fields, including an extensions length larger than the
\* bytes that remain and an IP header that carries options.
C28_NoReadOutsidePacket == ReadsOutside = {}

\* what the code keeps of C28: the only bytes read behind the packet are the
\* data offset of a TCP header that the IP header length puts behind the 54
\* validated bytes, and the last three bytes of an extension header
C28_ReadsOutsideAreDoffOrExtensionHeader ==
  \A o \in ReadsOutside :
    \/ o = TlsL4(last.pkt) + 12
    \/ /\ last.why \in {"client_hello", "store_failed"}
       /\ o - last.pkt.frame_len \in 0..2

\* an extension header was read behind the end of the packet
C28_ExtensionHeaderReadOutsideReached ==
  /\ last.prog = "tls_socket_filter"
  /\ last.pkt = TcpPkt(1, 2, 1000, 443, HelloLongExtensions(1))
  /\ ReadsOutside = {last.pkt.frame_len, last.pkt.frame_len + 1, last.pkt.frame_len + 2}

\* the data offset was read behind the end of a 54-byte frame
C28_DoffReadOutsideReached ==
  /\ last.prog = "tls_socket_filter"
  /\ last.pkt = TcpShortOptPkt(15)
  /\ ReadsOutside = {ETH_HLEN + 60 + 12}

\* the whole ClientHello behind IP and TCP options was walked inside the packet
C28_OptionsWalkedInsideReached ==
  /\ last.prog = "tls_socket_filter" /\ last.why = "client_hello"
  /\ last.pkt = TcpOptPkt(6, 8, ClientHelloBytes)
  /\ ReadsOutside = {}
  /\ last.pkt.frame_len - 1 \in TlsReads(last.pkt, 0)

\* ------------------------------------------------------------------------
\* parse_dns_name on names with compression pointers: every short byte
\* string over NameBytes, pointer loops with and without labels, and names
\* that end behind a chain of pointers; and dns_socket_filter on queries
\* whose name is compressed
\* ------------------------------------------------------------------------
\* the number of times the loop of parse_dns_name (lines 410-456) enters its
\* body; name_len and jumps are the locals of the C function
RECURSIVE ParseNameIterations(_, _, _, _, _, _)
ParseNameIterations(data, data_len, name_max, pos, name_len, jumps) ==
  IF ~(pos < data_len /\ name_len < name_max - 1) THEN 0
  ELSE LET len == B(data, pos)
           pos1 == pos + 1
           withsep == IF name_len > 0 THEN name_len + 1 ELSE name_len
           stored == Max(Min(len, (name_max - 1) - withsep), 0)
       IN IF len = 0 THEN 1
          ELSE IF (len \div 64) = 3
            THEN IF pos1 >= data_len \/ jumps > 5 THEN 1
                 ELSE 1 + ParseNameIterations(data, data_len, name_max,
                                              (len % 64) * 256 + B(data, pos1), name_len,
                                              jumps + 1)
          ELSE IF pos1 + len > data_len THEN 1
          ELSE 1 + ParseNameIterations(data, data_len, name_max, pos1 + len,
                                       withsep + stored, jumps)

\* the name that starts at pos runs into a pointer it has followed before;
\* seen holds the offsets of the pointers followed so far
RECURSIVE PointerCycle(_, _, _)
PointerCycle(data, pos, seen) ==
  IF pos >= Len(data) THEN FALSE
  ELSE LET len == B(data, pos)
       IN IF len = 0 THEN FALSE
          ELSE IF (len \div 64) = 3
            THEN IF pos \in seen THEN TRUE
                 ELSE IF pos + 1 >= Len(data) THEN FALSE
                 ELSE PointerCycle(data, (len % 64) * 256 + B(data, pos + 1),
                                   seen \cup {pos})
          ELSE IF pos + 1 + len > Len(data) THEN FALSE
          ELSE PointerCycle(data, pos + 1 + len, seen)

\* the offset of the first pointer of the name that starts at pos, or -1
RECURSIVE FirstPointer(_, _)
FirstPointer(data, pos) ==
  IF pos >= Len(data) THEN 0 - 1
  ELSE LET len == B(data, pos)
       IN IF len = 0 THEN 0 - 1
          ELSE IF (len \div 64) = 3 THEN pos
          ELSE IF pos + 1 + len > Len(data) THEN 0 - 1
          ELSE FirstPointer(data, pos + 1 + len)

\* a label of 63 letters
LongLabel == <<63>> \o [i \in 1..63 |-> 97]

\* "b", a pointer to offset 20, the type AAAA and class IN of the question,
\* at 20 a pointer to 24, and at 24 "c" and the end of the name
TwoJumpName == <<1, 98, 192, 20, 0, 28, 0, 1, 192, 24, 0, 0, 1, 99, 0>>

\* a pointer to the name "a" that stands behind the question
OneJumpName == <<192, 18, 0, 1, 0, 1, 1, 97, 0>>

\* names from offset 12: a pointer at 12 to a pointer at 14 that points back
\* to 12; the same loop with two long labels inside; a long label and a
\* pointer back to it; a short label and a pointer back to it; and the two
\* names that end behind pointers
PointerBodies ==
  { <<192, 14, 192, 12>>,
    <<192, 14>> \o LongLabel \o LongLabel \o <<192, 12>>,
    LongLabel \o <<192, 12>>,
    <<1, 97, 192, 12>>,
    TwoJumpName, OneJumpName }

PointerQueries ==
  {UdpPkt(1, 2, 1000, DNS_PORT, DnsHeader(9, 0, 1, 0) \o body) :
     body \in {TwoJumpName, OneJumpName}}

NextPointer ==
  \/ \E body \in SeqsUpTo(NameBytes, MaxNameBytes) \cup PointerBodies : NameParse(body)
  \/ \E p \in PointerQueries, store_ok \in BOOLEAN, g \in Garbage : DnsPacket(p, store_ok, g)
  \/ Consume("dns")

SpecPointer == Init /\ [][NextPointer]_vars

\* C29: DNS name parsing terminates on every input buffer, including names
\* whose compression pointers form a cycle (a pointer that points to itself
\* or back to an earlier pointer): such a name is rejected after a bounded
\* number of jumps instead of looping.
C29_CycleTerminatesRejected ==
  nm.called =>
    /\ ParseNameIterations(nm.buf, Len(nm.buf), MAX_DOMAIN_LEN, DNS_HLEN, 0, 0)
         <= MAX_DOMAIN_LEN + 7
    /\ PointerCycle(nm.buf, DNS_HLEN, {}) => nm.res.ret = 0 - 1 /\ nm.res.jumps_done <= 6

\* what the code keeps of C29: the loop ends on every buffer after at most
\* 6 jumps, and a name with a pointer cycle is rejected unless the labels
\* inside the cycle fill the name buffer first
C29_CycleTerminates ==
  nm.called =>
    /\ ParseNameIterations(nm.buf, Len(nm.buf), MAX_DOMAIN_LEN, DNS_HLEN, 0, 0)
         <= MAX_DOMAIN_LEN + 7
    /\ nm.res.jumps_done <= 6
    /\ PointerCycle(nm.buf, DNS_HLEN, {}) =>
         nm.res.ret = 0 - 1 \/ nm.res.ret = MAX_DOMAIN_LEN - 1

\* the loop of two pointers was rejected at the seventh pointer
C29_PointerLoopRejectedReached ==
  /\ nm.called
  /\ nm.buf = DnsHeader(1, 256, 1, 0) \o <<192, 14, 192, 12>>
  /\ nm.res.ret = 0 - 1 /\ nm.res.jumps_done = 6

\* the loop of two pointers with two long labels inside was accepted
C29_PointerLoopAcceptedReached ==
  /\ nm.called
  /\ nm.buf = DnsHeader(1, 256, 1, 0) \o <<192, 14>> \o LongLabel \o LongLabel \o <<192, 12>>
  /\ PointerCycle(nm.buf, DNS_HLEN, {})
  /\ nm.res.ret = MAX_DOMAIN_LEN - 1 /\ nm.res.jumps_done = 3

\* the last step stored the query of a packet of PointerQueries
PointerQueryStored ==
  /\ last.prog = "dns_socket_filter" /\ last.why = "query"
  /\ last.pkt \in PointerQueries

\* C30: after parsing a DNS name that contains compression pointers, the
\* cursor returned to the caller is the offset immediately after the two
\* bytes of the first pointer, wherever later jumps led, so that the query
\* type and class are read from the bytes that follow the name in the
\* question section.
C30_CursorAfterFirstPointer ==
  /\ (nm.called /\ nm.res.ret >= 0 /\ nm.res.jumps_done > 0) =>
       nm.res.pos = FirstPointer(nm.buf, DNS_HLEN) + 2
  /\ PointerQueryStored =>
       LET dns == last.pkt.payload
           stored == dns_queries[DnsKey(last.pkt.saddr, last.pkt.daddr,
                                        Bswap16(last.pkt.sport), Bswap16(last.pkt.dport),
                                        U16(dns, 0))]
       IN /\ stored.query_type = U16(dns, FirstPointer(dns, DNS_HLEN) + 2)
          /\ stored.query_class = U16(dns, FirstPointer(dns, DNS_HLEN) + 4)

\* a name was parsed through two jumps and the cursor stands behind the
\* first pointer, and the query for that name was stored with type AAAA
C30_Witness ==
  /\ nm.called
  /\ nm.buf = DnsHeader(1, 256, 1, 0) \o TwoJumpName
  /\ nm.res.ret = 3 /\ nm.res.jumps_done = 2 /\ nm.res.pos = 16
  /\ PointerQueryStored
  /\ last.pkt.payload = DnsHeader(9, 0, 1, 0) \o TwoJumpName
  /\ dns_queries[DnsKey(1, 2, Bswap16(1000), Bswap16(DNS_PORT), 9)].query_type = 28

\* ------------------------------------------------------------------------
\* dhcp_socket_filter on the four message types it stores, with the options
\* it extracts in the order of its searches and in the opposite order, the
\* message type in front of them or behind them, with the consumer of
\* dhcp_events and the clock
\* ------------------------------------------------------------------------
\* the options dhcp_socket_filter searches for a message type, in the order
\* of its calls of parse_dhcp_options
SearchedOptions(mt) ==
  CASE mt = 1 -> <<DHCP_OPTION_HOST_NAME, DHCP_OPTION_VENDOR_CLASS>>
    [] mt = 2 -> <<DHCP_OPTION_SERVER_ID, DHCP_OPTION_SUBNET_MASK, DHCP_OPTION_ROUTER,
                   DHCP_OPTION_DNS_SERVER, DHCP_OPTION_LEASE_TIME>>
    [] mt = 3 -> <<DHCP_OPTION_REQUESTED_IP, DHCP_OPTION_SERVER_ID, DHCP_OPTION_HOST_NAME>>
    [] mt = 5 -> <<DHCP_OPTION_SERVER_ID, DHCP_OPTION_SUBNET_MASK, DHCP_OPTION_ROUTER,
                   DHCP_OPTION_DNS_SERVER, DHCP_OPTION_LEASE_TIME, DHCP_OPTION_RENEWAL_TIME,
                   DHCP_OPTION_REBINDING_TIME>>

\* the max_len each search passes
SearchMax(code) ==
  IF code \in {DHCP_OPTION_HOST_NAME, DHCP_OPTION_VENDOR_CLASS} THEN 63
  ELSE IF code = DHCP_OPTION_DNS_SERVER THEN 16 ELSE 4

\* the field of a stored record that receives the value of an option
FieldOf(rec, code) ==
  CASE code = DHCP_OPTION_HOST_NAME -> rec.hostname
    [] code = DHCP_OPTION_VENDOR_CLASS -> rec.vendor_class
    [] code = DHCP_OPTION_SERVER_ID -> rec.server_ip
    [] code = DHCP_OPTION_SUBNET_MASK -> rec.subnet_mask
    [] code = DHCP_OPTION_ROUTER -> rec.router
    [] code = DHCP_OPTION_DNS_SERVER -> rec.dns_servers
    [] code = DHCP_OPTION_LEASE_TIME -> rec.lease_time
    [] code = DHCP_OPTION_REQUESTED_IP -> rec.requested_ip
    [] code = DHCP_OPTION_RENEWAL_TIME -> rec.renewal_time
    [] code = DHCP_OPTION_REBINDING_TIME -> rec.rebinding_time

\* the value an option carries in the messages below: "laptop1" for the two
\* strings, four bytes that end in the option code for the others
FindValue(code) ==
  IF code \in {DHCP_OPTION_HOST_NAME, DHCP_OPTION_VENDOR_CLASS} THEN Laptop1
  ELSE <<10, 0, 0, code>>

RECURSIVE OptionArea(_)
OptionArea(codes) ==
  IF codes = <<>> THEN <<>>
  ELSE Opt(Head(codes), FindValue(Head(codes))) \o OptionArea(Tail(codes))

Reversed(q) == [i \in 1..Len(q) |-> q[Len(q) + 1 - i]]

FindPkt(mt, codes, type_first) ==
  LET t == Opt(DHCP_OPTION_MESSAGE_TYPE, <<mt>>)
      area == OptionArea(codes)
  IN DhcpMsg(IF mt \in {1, 3} THEN 1 ELSE 2, DHCP_MAGIC_COOKIE,
             (IF type_first THEN t \o area ELSE area \o t) \o <<255>>)

\* an Offer in which the byte behind the message type is 0, so that the
\* search for the server id, which starts on the value of option 53, reads
\* (2, 0) as an empty option and then stands on the server id option
FindAlignedPkt ==
  DhcpMsg(2, DHCP_MAGIC_COOKIE,
          Opt(DHCP_OPTION_MESSAGE_TYPE, <<2>>) \o <<0>>
            \o Opt(DHCP_OPTION_SERVER_ID, FindValue(DHCP_OPTION_SERVER_ID)) \o <<255>>)

StoredTypes == {1, 2, 3, 5}

\* a Discover and a Request built the same way: the search that follows the
\* message type is the one for the host name, of 63 bytes, or for the
\* requested address
FindAlignedNamePkt(mt) ==
  DhcpMsg(1, DHCP_MAGIC_COOKIE,
          Opt(DHCP_OPTION_MESSAGE_TYPE, <<mt>>) \o <<0>>
            \o (IF mt = 1 THEN Opt(DHCP_OPTION_HOST_NAME, Host(63))
                ELSE Opt(DHCP_OPTION_REQUESTED_IP, FindValue(DHCP_OPTION_REQUESTED_IP)))
            \o <<255>>)

FindPackets ==
  {FindPkt(mt, codes, type_first) :
     mt \in StoredTypes, type_first \in BOOLEAN,
     codes \in UNION {{SearchedOptions(m), Reversed(SearchedOptions(m))} : m \in StoredTypes}}
    \cup {FindAlignedPkt, FindAlignedNamePkt(1), FindAlignedNamePkt(3)}

NextFind ==
  \/ \E p \in FindPackets, store_ok \in BOOLEAN : DhcpPacket(p, store_ok)
  \/ Consume("dhcp")
  \/ Tick

SpecFind == Init /\ [][NextFind]_vars

\* the message type of a packet of FindPackets, found from offset 240
TypeOf(p) ==
  LET r == parse_dhcp_options(p.payload, Len(p.payload), DHCP_HLEN,
                              DHCP_OPTION_MESSAGE_TYPE, 1)
  IN IF r.ret = 1 THEN r.value[1] ELSE 0

\* the record the last invocation stored
FindStored ==
  dhcp_store[last.why][DhcpKey(last.pkt.payload)]

\* an option of the last packet that a scan of the triples from offset 240
\* finds and whose value the stored record does not hold
Missed(code) ==
  LET r == parse_dhcp_options(last.pkt.payload, Len(last.pkt.payload), DHCP_HLEN, code,
                              SearchMax(code))
  IN r.ret >= 0 /\ FieldOf(FindStored, code) # r.value

FindRecordStored ==
  /\ last.prog = "dhcp_socket_filter"
  /\ last.why \in {"discover", "offer", "request", "ack"}
  /\ last.pkt \in FindPackets

\* C31: for every DHCP message type, each option the dissector extracts
\* (hostname 12, vendor class 60, server id 54, subnet mask 1, router 3, DNS
\* servers 6, lease time 51, requested IP 50, renewal 58, rebinding 59) is
\* found whenever it is present between offset 240 and the end option,
\* whatever its position relative to the message-type option and to the
\* other extracted options: every option search scans the option triples
\* from offset 240.
C31_OptionFoundWhereverPresent ==
  FindRecordStored =>
    \A i \in 1..Len(SearchedOptions(TypeOf(last.pkt))) :
      ~Missed(SearchedOptions(TypeOf(last.pkt))[i])

\* what the code keeps of C31: the message type is searched from offset 240,
\* and a message whose type stands in front of the end option is stored
\* under that type
C31_TypeFoundFrom240 ==
  (last.prog = "dhcp_socket_filter" /\ last.pkt \in FindPackets) =>
    last.why = (CASE TypeOf(last.pkt) = 1 -> "discover" [] TypeOf(last.pkt) = 2 -> "offer"
                  [] TypeOf(last.pkt) = 3 -> "request" [] TypeOf(last.pkt) = 5 -> "ack")
    \/ last.why = "store_failed"

\* an Offer with the message type in front and the options in the order of
\* the searches was stored without its server id
C31_OptionMissedReached ==
  /\ FindRecordStored
  /\ last.pkt = FindPkt(2, SearchedOptions(2), TRUE)
  /\ Missed(DHCP_OPTION_SERVER_ID)
  /\ FindStored.server_ip = <<>>

\* the server id was found where the cursor happened to stand on its option
C31_OptionFoundReached ==
  /\ FindRecordStored
  /\ last.pkt = FindAlignedPkt
  /\ FindStored.server_ip = FindValue(DHCP_OPTION_SERVER_ID)

\* ------------------------------------------------------------------------
\* tls_socket_filter on ClientHello messages whose server name cannot be
\* extracted
\* ------------------------------------------------------------------------
\* parse_tls_sni gives up on the payload of p with -1
SniAborted(p) ==
  \E g \in Garbage :
    parse_tls_sni(p.payload, TlsAvail(p), ZeroBytes(MAX_SNI_LEN), MAX_SNI_LEN, g).ret = 0 - 1

\* the last invocation went past the handshake type test of line 137 to the
\* store of line 160, which succeeded ("client_hello") or failed
HelloProcessed ==
  /\ last.prog = "tls_socket_filter"
  /\ last.why \in {"client_hello", "store_failed"}

\* C32: when SNI extraction aborts because a declared length would read past
\* the buffer, the ClientHello's handshake record is still stored under its
\* 4-tuple key and a handshake event is still emitted, carrying the fields
\* parsed so far.
C32_AbortedSniStillRecorded ==
  (HelloProcessed /\ SniAborted(last.pkt) /\ last.why = "client_hello") =>
    /\ TlsKey(last.pkt) \in DOMAIN tls_handshakes
    /\ LET rec == tls_handshakes[TlsKey(last.pkt)]
       IN /\ rec.version = U16(last.pkt.payload, 1)
          /\ rec.sni = ZeroBytes(MAX_SNI_LEN)
          /\ rec.ja3_hash = produce_ja3_hash(rec)
          /\ ~last.event_dropped =>
               /\ tls_events # <<>>
               /\ LET ev == tls_events[Len(tls_events)]
                  IN /\ ev.key = TlsKey(last.pkt)
                     /\ ev.version = rec.version /\ ev.sni = rec.sni
                     /\ ev.timestamp = rec.timestamp /\ ev.ja3_hash = rec.ja3_hash

\* a ClientHello whose extensions length announces more than remains was
\* stored and its event emitted
C32_Witness ==
  /\ HelloProcessed /\ last.why = "client_hello" /\ ~last.event_dropped
  /\ last.pkt = TcpPkt(1, 2, 1000, 443, HelloLongExtensions(1))
  /\ SniAborted(last.pkt)
  /\ tls_handshakes[TlsKey(last.pkt)].version = 769
  /\ tls_events[Len(tls_events)].sni = ZeroBytes(MAX_SNI_LEN)

\* ------------------------------------------------------------------------
\* The length fields and the terminators of the Discover and Request records
\* ------------------------------------------------------------------------
\* char hostname[64], char vendor_class[64]
HostnameSize == 64

\* lines 272-274, 279-281 and 354-356: the index of the field at which the
\* terminator is written for a length, -1 when none is written
TerminatorIndex(len) == IF len > 0 THEN len ELSE 0 - 1

\* the length fields of the record the last invocation stored
NameLengths ==
  IF last.why = "discover"
    THEN {FindStored.hostname_len, FindStored.vendor_class_len}
    ELSE {FindStored.hostname_len}

NameRecordStored ==
  FindRecordStored /\ last.why \in {"discover", "request"}

\* C33: in every DHCP Discover and Request record that is stored or emitted,
\* hostname_len and vendor_class_len are at most 63 and the terminator byte
\* is written inside the 64-byte field, also when the option is absent from
\* the packet or its search fails.
C33_NameLengthsInsideField ==
  NameRecordStored =>
    \A len \in NameLengths : len <= HostnameSize - 1 /\ TerminatorIndex(len) < HostnameSize

\* what the code keeps of C33: a length is that of a found option, at most
\* 63 with the terminator inside the field, or the 255 of a failed search
C33_NameLengthsOrFailure ==
  NameRecordStored =>
    \A len \in NameLengths :
      \/ len <= HostnameSize - 1 /\ TerminatorIndex(len) < HostnameSize
      \/ len = 255

\* a Discover without a vendor class was stored with the host name of 63
\* bytes, terminated at index 63, and vendor_class_len = 255, terminated at
\* index 255
C33_TerminatorOutsideReached ==
  /\ NameRecordStored
  /\ last.pkt = FindAlignedNamePkt(1)
  /\ FindStored.hostname_len = 63 /\ FindStored.hostname = Host(63)
  /\ FindStored.vendor_class_len = 255
  /\ TerminatorIndex(FindStored.vendor_class_len) = 255

\* ------------------------------------------------------------------------
\* xdp_blocklist_prog over time: packets of every kind the program tells
\* apart, from a source the control plane never blocks and from one it may
\* block, with the clock advancing by fractions and multiples of the rate
\* limit window between them
\* ------------------------------------------------------------------------
MaxVerdictPackets == 3

VerdictSources == {1} \cup BlockableIps

\* a TCP segment, a fragment of one, a frame cut inside the Ethernet header,
\* an ARP frame, a frame cut inside the IP header, a frame cut inside the
\* TCP header, and a DNS response, from each source
VerdictPackets ==
  UNION { { TcpPkt(ip, 2, 1000, 443, <<>>),
            [TcpPkt(ip, 2, 1000, 443, <<>>) EXCEPT !.frag = TRUE],
            TcPkt(10, ETH_P_IP, IPPROTO_TCP, ip, 2, 1000, 443),
            TcPkt(60, ETH_P_ARP, IPPROTO_TCP, ip, 2, 1000, 443),
            TcPkt(30, ETH_P_IP, IPPROTO_TCP, ip, 2, 1000, 443),
            TcPkt(ETH_HLEN + IP_HLEN + 4, ETH_P_IP, IPPROTO_TCP, ip, 2, 1000, 443),
            UdpPkt(ip, 2, DNS_PORT, DNS_PORT, DnsHeader(7, 128, 1, 1)) } : ip \in VerdictSources }

\* the outcomes of xdp_blocklist_prog reached only after both the blocklist
\* check and the rate limiter let the packet through
PastRateLimiter ==
  {"short_l4", "short_dns", "dns_response", "domain", "noflow", "verdict", "flow"}

\* one packet through xdp_blocklist_prog; hist.admitted keeps, per source,
\* the clock value of the first packet the rate limiter let through
VerdictXdp(p) ==
  LET r == xdp_blocklist_prog(p, ip_blocklist, xdp_flow_map, xdp_stats, dns_bloom,
                              HasRoom(xdp_events), now)
  IN /\ hist.npkts < MaxVerdictPackets
     /\ ip_blocklist' = r.bl
     /\ xdp_flow_map' = r.fm
     /\ xdp_stats' = r.st
     /\ xdp_events' = RingAfter(xdp_events, r.ev)
     /\ last' = [prog |-> "xdp_blocklist_prog", pkt |-> p, ret |-> r.ret, why |-> r.why,
                 t |-> now, bl_before |-> ip_blocklist, st_before |-> xdp_stats]
     /\ hist' = [hist EXCEPT !.npkts = @ + 1,
                             !.admitted = IF r.why \in PastRateLimiter
                                             /\ p.saddr \notin DOMAIN @
                                            THEN MapPut(@, p.saddr, now) ELSE @]
     /\ UNCHANGED <<now, dns_bloom, tcVars, dnsVars, tlsVars, dhcpVars, cpu, nm>>

NextVerdict ==
  \/ \E p \in VerdictPackets : VerdictXdp(p)
  \/ \E d \in RateSteps : RateTick(d)
  \/ \E ip \in BlockableIps : CtlBlock(ip)
  \/ XdpConsume

SpecVerdict == Init /\ [][NextVerdict]_vars

VerdictDone == last.prog = "xdp_blocklist_prog" /\ "st_before" \in DOMAIN last

\* the packet just handled comes from a source the control plane never
\* blocked and arrives at least one window after that source's first
\* admitted packet
LaterPacketOfAdmittedSource ==
  /\ VerdictDone
  /\ last.pkt.saddr \notin BlockableIps
  /\ last.why \notin {"short_eth", "not_ip", "short_ip", "fragment"}
  /\ last.pkt.saddr \in DOMAIN hist.admitted
  /\ last.t - hist.admitted[last.pkt.saddr] >= RATE_LIMIT_WINDOW_NS

\* C34: a packet from a source the control plane never put in ip_blocklist,
\* arriving at least one rate-limit window after that source's first admitted
\* packet, is dropped neither by the blocklist check nor by the rate limiter
C34_LaterPacketNotDropped ==
  LaterPacketOfAdmittedSource => last.why \notin {"blocked", "rate"}

\* what the code keeps: the rate limiter itself never drops such a packet,
\* because the blocklist check drops it first
C34_LaterPacketNotRateLimited ==
  LaterPacketOfAdmittedSource => last.why = "blocked"

C34_LaterPacketBlockedReached ==
  /\ LaterPacketOfAdmittedSource
  /\ last.why = "blocked"
  /\ last.ret = XDP_DROP
  /\ last.bl_before[last.pkt.saddr] = hist.admitted[last.pkt.saddr]

\* the packet just handled is an IPv4 packet with a complete IP header whose
\* source address was in ip_blocklist when it arrived
BlockedSourcePacket ==
  /\ VerdictDone
  /\ last.pkt.len >= ETH_HLEN + IP_HLEN
  /\ last.pkt.eth_proto = ETH_P_IP
  /\ last.pkt.saddr \in DOMAIN last.bl_before

DroppedAndCounted ==
  /\ last.ret = XDP_DROP
  /\ xdp_stats.packets_dropped = last.st_before.packets_dropped + 1

\* C35: every IPv4 packet with a complete IP header whose source address is
\* in ip_blocklist is dropped and counted as dropped, fragments included
C35_BlockedSourceAlwaysDropped ==
  BlockedSourcePacket => DroppedAndCounted

\* what the code keeps: the same for packets that are not fragments
C35_BlockedSourceDroppedUnlessFragment ==
  (BlockedSourcePacket /\ ~last.pkt.frag) => (DroppedAndCounted /\ last.why = "blocked")

C35_BlockedFragmentPassedReached ==
  /\ BlockedSourcePacket
  /\ last.pkt.frag
  /\ last.pkt.saddr \in BlockableIps
  /\ last.ret = XDP_PASS
  /\ xdp_stats = last.st_before

C35_BlockedSourceDroppedReached ==
  /\ BlockedSourcePacket
  /\ ~last.pkt.frag
  /\ last.pkt.saddr \in BlockableIps
  /\ DroppedAndCounted

\* ------------------------------------------------------------------------
\* rate_limit_check on two CPUs at once (the steps of SpecRace; the clock
\* stands still, so all packets fall in one rate-limit window)
\* ------------------------------------------------------------------------
\* rate_limit_check returned 1 to the invocation on CPU c: it stands between
\* line 187 and line 194, or went on to the flow part of the program
RateAdmitted(c) ==
  \/ cpu[c].pc \in {"rl_update", "flow_lookup", "flow_insert"}
  \/ cpu[c].pc = "done" /\ cpu[c].flow # "none"

\* C36: of two packets from the same source IP processed in parallel within
\* one rate-limit window, at most one is admitted by rate_limit_check
C36_AtMostOneAdmittedInParallel ==
  \A c1 \in CPUs, c2 \in CPUs :
    (c1 # c2 /\ cpu[c1].pc # "idle" /\ cpu[c2].pc # "idle"
       /\ cpu[c1].pkt.saddr = cpu[c2].pkt.saddr)
      => ~(RateAdmitted(c1) /\ RateAdmitted(c2))

\* what the code keeps: an invocation that starts after the other's update
\* of line 190 finds the entry and is not admitted
C36_StartAfterUpdateNotAdmitted ==
  \A c \in CPUs :
    (cpu[c].pc = "rl_lookup" /\ cpu[c].pkt.saddr \in DOMAIN ip_blocklist)
      => ~RateAdmits(ip_blocklist, cpu[c].pkt.saddr, now)

C36_BothAdmittedReached ==
  \E c1 \in CPUs, c2 \in CPUs :
    /\ c1 # c2
    /\ cpu[c1].pc = "done" /\ cpu[c2].pc = "done"
    /\ cpu[c1].pkt.saddr = cpu[c2].pkt.saddr
    /\ cpu[c1].ret = XDP_PASS /\ cpu[c2].ret = XDP_PASS
    /\ RateAdmitted(c1) /\ RateAdmitted(c2)
    /\ ip_blocklist[cpu[c1].pkt.saddr] = now

\* ------------------------------------------------------------------------
\* last_seen of one flow in both hooks that write it: the packets of the
\* flow through xdp_blocklist_prog and through tc_fast_path, with the clock
\* advancing between them.  hist.clocks keeps, per hook, the clock values
\* read while a packet of the flow was processed
\* ------------------------------------------------------------------------
MaxSeenPackets == 4

SeenXdp(p) ==
  LET r == xdp_blocklist_prog(p, ip_blocklist, xdp_flow_map, xdp_stats, dns_bloom,
                              HasRoom(xdp_events), now)
  IN /\ hist.npkts < MaxSeenPackets
     /\ ip_blocklist' = r.bl
     /\ xdp_flow_map' = r.fm
     /\ xdp_stats' = r.st
     /\ xdp_events' = RingAfter(xdp_events, r.ev)
     /\ last' = [prog |-> "xdp_blocklist_prog", pkt |-> p, ret |-> r.ret, why |-> r.why,
                 t |-> now]
     /\ hist' = [hist EXCEPT !.npkts = @ + 1,
                             !.clocks["xdp"] = IF r.why \in {"verdict", "flow"}
                                                 THEN @ \cup {now} ELSE @]
     /\ UNCHANGED <<now, dns_bloom, tcVars, dnsVars, tlsVars, dhcpVars, cpu, nm>>

SeenTc(p) ==
  LET r == tc_fast_path(p, tc_flow_map, qos_profiles, tc_stats, now)
  IN /\ hist.npkts < MaxSeenPackets
     /\ tc_flow_map' = r.fm
     /\ tc_stats' = r.st
     /\ last' = [prog |-> "tc_fast_path", pkt |-> p, ret |-> r.ret, skb |-> r.skb,
                 t |-> now, fm_before |-> tc_flow_map]
     /\ hist' = [hist EXCEPT !.npkts = @ + 1,
                             !.clocks["tc"] = IF PacketKey(p) \in DOMAIN tc_flow_map
                                                THEN @ \cup {now} ELSE @]
     /\ UNCHANGED <<now, xdpVars, qos_profiles, dnsVars, tlsVars, dhcpVars, cpu, nm>>

NextSeen ==
  \/ SeenXdp(TrustPkt)
  \/ SeenTc(TrustPkt)
  \/ CtlUnblock(TrustPkt.saddr)
  \/ \E v \in {VERDICT_UNKNOWN, VERDICT_TRUSTED} :
       CtlSetFlow(PacketKey(TrustPkt), v, QOS_PROFILE_DEFAULT)
  \/ XdpConsume
  \/ Tick

SpecSeen == Init /\ [][NextSeen]_vars

\* last_seen of every entry of fm that a packet of hook h has updated is one
\* of the clock values read for those packets and is not ahead of the clock
LastSeenIsAClockRead(fm, h) ==
  \A k \in DOMAIN fm :
    hist.clocks[h] # {} =>
      /\ fm[k].last_seen \in hist.clocks[h]
      /\ fm[k].last_seen <= now

\* C37: after any sequence of packets on a flow, the flow's last_seen equals
\* the clock value read while processing one of those packets and never
\* exceeds the current clock value, in every hook that updates it
C37_LastSeenIsAClockRead ==
  /\ LastSeenIsAClockRead(xdp_flow_map, "xdp")
  /\ LastSeenIsAClockRead(tc_flow_map, "tc")

\* what the code keeps: the claim for xdp_blocklist_prog, and for the first
\* packet of a flow in tc_fast_path
C37_LastSeenIsAClockReadInXdp ==
  /\ LastSeenIsAClockRead(xdp_flow_map, "xdp")
  /\ \A k \in DOMAIN tc_flow_map :
       tc_flow_map[k].packet_count = 1 => tc_flow_map[k].last_seen \in hist.clocks["tc"]

\* two packets of the flow went through tc_fast_path at clock values 1 and 2
\* and last_seen is their sum, ahead of the clock
C37_LastSeenAheadOfClockReached ==
  /\ last.prog = "tc_fast_path"
  /\ hist.clocks["tc"] = {1, 2}
  /\ tc_flow_map[PacketKey(TrustPkt)].packet_count = 2
  /\ now = 2
  /\ tc_flow_map[PacketKey(TrustPkt)].last_seen = 3

C37_XdpLastSeenReached ==
  /\ last.prog = "xdp_blocklist_prog" /\ "t" \in DOMAIN last
  /\ Cardinality(hist.clocks["xdp"]) = 2
  /\ xdp_flow_map[XdpFlowKey(TrustPkt)].packet_count = 2
  /\ xdp_flow_map[XdpFlowKey(TrustPkt)].last_seen = now

\* ------------------------------------------------------------------------
\* parse_dns_name as a function of its arguments: the offsets of data it
\* reads and the indexes of name it writes, over short buffers, start
\* cursors inside and behind the buffer, and small output sizes
\* ------------------------------------------------------------------------
\* label lengths 0, 1 and 2, the letter 'a', a byte that is not printable
\* as a character and a pointer tag as a length (200), and the pointer tag
\* 0xC0, which with the next byte points to offset 0, 1 or 2
AccessBytes == {0, 1, 2, 97, 200, 192}

MaxAccessBytes == 4

AccessCursors == {0, 1, 2, 5}

\* sizes of the output buffer; MAX_DOMAIN_LEN is the size dns_socket.c passes
AccessSizes == {1, 2, 3, MAX_DOMAIN_LEN}

AccessResult(reads, writes, terminated) ==
  [reads |-> reads, writes |-> writes, terminated |-> terminated]

\* the loop of parse_dns_name, lines 410-456, and the terminator of line 458:
\* reads collects the offsets of data that are read, writes the indexes of
\* name that are written, have is name_len
RECURSIVE ParseNameAccess(_, _, _, _, _, _, _, _)
ParseNameAccess(data, data_len, name_max, pos, have, jumps, reads, writes) ==
  IF ~(pos < data_len /\ have < name_max - 1)
    THEN AccessResult(reads, writes \cup {have}, TRUE)
  ELSE LET len == B(data, pos)
           pos1 == pos + 1
           reads1 == reads \cup {pos}
       IN IF len = 0 THEN AccessResult(reads1, writes \cup {have}, TRUE)
          ELSE IF (len \div 64) = 3
            THEN IF pos1 >= data_len THEN AccessResult(reads1, writes, FALSE)
                 ELSE IF jumps > 5 THEN AccessResult(reads1, writes, FALSE)
                 ELSE ParseNameAccess(data, data_len, name_max,
                                      (len % 64) * 256 + B(data, pos1), have, jumps + 1,
                                      reads1 \cup {pos1}, writes)
          ELSE IF pos1 + len > data_len THEN AccessResult(reads1, writes, FALSE)
          ELSE LET sep == IF have > 0 THEN 1 ELSE 0
                   copied == Len(LabelChars(data, pos1, len, have + sep, name_max))
               IN ParseNameAccess(data, data_len, name_max, pos1 + len,
                                  have + sep + copied, jumps,
                                  reads1 \cup {pos1 + i : i \in 0..(copied - 1)},
                                  writes \cup {have + i : i \in 0..(sep + copied - 1)})

NameParseAt(buf, pos, name_max) ==
  /\ ~nm.called
  /\ nm' = [called |-> TRUE, buf |-> buf, pos |-> pos, name_max |-> name_max,
            res |-> parse_dns_name(buf, Len(buf), pos, name_max),
            acc |-> ParseNameAccess(buf, Len(buf), name_max, pos, 0, 0, {}, {})]
  /\ UNCHANGED <<now, xdpVars, tcVars, dnsVars, tlsVars, dhcpVars, last, hist, cpu>>

NextAccess ==
  \E buf \in SeqsUpTo(AccessBytes, MaxAccessBytes), pos \in AccessCursors,
     name_max \in AccessSizes : NameParseAt(buf, pos, name_max)

SpecAccess == Init /\ [][NextAccess]_vars

AccessDone == nm.called /\ "acc" \in DOMAIN nm

C38_PointerWitness ==
  /\ AccessDone
  /\ nm.buf = <<192, 2, 1, 97>> /\ nm.pos = 0 /\ nm.name_max = 3
  /\ nm.res.ret = 1 /\ nm.res.name = <<97>>
  /\ nm.acc.reads = {0, 1, 2, 3}

C38_RejectedWitness ==
  /\ AccessDone
  /\ nm.buf = <<1, 97, 192, 0>> /\ nm.pos = 0
  /\ nm.res.ret = 0 - 1
  /\ nm.acc.reads = {0, 1, 2, 3}
  /\ nm.acc.writes # {}

C38_SeparatorWitness ==
  /\ AccessDone
  /\ nm.buf = <<1, 97, 1, 200>> /\ nm.pos = 0 /\ nm.name_max = MAX_DOMAIN_LEN
  /\ nm.res.ret = 3 /\ nm.res.name = <<97, 46, 63>>
  /\ nm.acc.writes = {0, 1, 2, 3}

\* ------------------------------------------------------------------------
\* The statistics of xdp_blocklist_prog against the packets it handled
\* (SpecVerdict; hist.npkts is the number of completed invocations)
\* ------------------------------------------------------------------------
\* the counters moved by one for the packet just handled, on the side of
\* its verdict
CountedByVerdict ==
  /\ xdp_stats.packets_processed = last.st_before.packets_processed + 1
  /\ xdp_stats.packets_dropped =
       last.st_before.packets_dropped + (IF last.ret = XDP_DROP THEN 1 ELSE 0)
  /\ xdp_stats.packets_passed =
       last.st_before.packets_passed + (IF last.ret = XDP_PASS THEN 1 ELSE 0)

\* the returns of xdp_blocklist_prog that come after a call of update_statistics
CountedOutcomes == {"blocked", "rate", "domain", "verdict", "flow"}

\* C39: every packet handled by xdp_blocklist_prog is counted once in
\* packets_processed and once in packets_passed or packets_dropped according
\* to its verdict, so that packets_processed = packets_passed +
\* packets_dropped = number of packets handled
C39_EveryPacketCounted ==
  /\ VerdictDone => CountedByVerdict
  /\ xdp_stats.packets_processed = xdp_stats.packets_passed + xdp_stats.packets_dropped
  /\ xdp_stats.packets_processed = hist.npkts

\* what the code keeps: the packets that reach a call of update_statistics
\* are counted once on the side of their verdict, the others not at all, and
\* the two sides add up to packets_processed
C39_CountedWhenStatisticsCalled ==
  /\ VerdictDone =>
       IF last.why \in CountedOutcomes THEN CountedByVerdict
       ELSE xdp_stats = last.st_before /\ last.ret = XDP_PASS
  /\ xdp_stats.packets_processed = xdp_stats.packets_passed + xdp_stats.packets_dropped
  /\ xdp_stats.packets_processed <= hist.npkts

C39_PassedUncountedReached ==
  /\ VerdictDone
  /\ hist.npkts = MaxVerdictPackets
  /\ xdp_stats.packets_processed = 0
  /\ last.why = "not_ip"
  /\ last.ret = XDP_PASS

C39_PacketCountedReached ==
  /\ VerdictDone
  /\ last.why = "flow"
  /\ CountedByVerdict
  /\ xdp_stats.packets_dropped = 1 /\ xdp_stats.packets_passed = 1

====
